---- MODULE Spec2Model ----
(***************************************************************************)
(* Gas-fee sponsoring relayer: the relay pipeline (RelayerService), the    *)
(* policy engine (PolicyEngine), the Redis nonce cursor (RedisService) and *)
(* the transaction / policy-rule store (DatabaseService).                  *)
(*                                                                         *)
(* Four specifications share the variables:                                *)
(*   Spec        concurrent runs of relayTransaction                       *)
(*   SpecSeq     the same runs, one at a time                              *)
(*   SpecPolicy  policy-rule CRUD, loadPolicyRules and checkPolicies       *)
(*   SpecStore   saveTransaction / updateTransaction on the store          *)
(*                                                                         *)
(* Time is counted in ticks of half an hour.  Amounts of native currency   *)
(* are counted in units of 10^17 wei, gas in units of 10000, gas prices in  *)
(* gwei.                                                                   *)
(***************************************************************************)
EXTENDS Integers, Sequences, FiniteSets, TLC

(* ------------------------------ bounds -------------------------------- *)

\* number of relayTransaction runs
NumRuns == 3

\* relayTransaction runs in flight at the same time
MaxActive == 2

\* last clock tick
MaxTime == 2

\* pending transaction count of the relayer address when the service starts
ChainNonce0 == 3

\* rows added to the policy_rules table in SpecPolicy
MaxRules == 1

\* transactions the store is given in SpecStore
MaxStoreTxs == 4

(* --------------------------- program constants ------------------------ *)

\* const oneHour = 60 * 60 * 1000, in ticks
OneHour == 2

OneDay == 24 * OneHour

\* client.expire(key, 3600), in ticks
NonceTtl == 2

\* config.relayer.maxGasLimit = '500000', in units of 10000 gas
MaxGasLimit == 50

\* config.relayer.maxGasPrice = 100 gwei
MaxGasPrice == 100

\* getOptimalGasPrice: the fallback of its catch block, 20 gwei
FallbackGasPrice == 20

\* Math.floor(config.relayer.gasMultiplier * 100), gasMultiplier = 1.2
GasMultiplierPercent == 120

\* estimateGas: gasEstimate * BigInt(120) / BigInt(100)
GasBufferPercent == 120

\* a provider call that throws
CallError == -1

\* config.relayer.maxValuePerTransaction = 1 ETH, in units of 10^17 wei
MaxValuePerTransaction == 10

\* the value getCurrentNonce returns for a missing key (null)
NoNonce == -1

Networks == {"localhost", "polygon", "ethereum"}

\* strings that ethers.isAddress accepts; "0xAA" and "0xDD" are the
\* mixed-case (checksummed) spellings of "0xaa" and "0xdd"
AddrStrings == {"0xaa", "0xAA", "0xbb", "0xcc", "0xdd", "0xDD"}

\* String.prototype.toLowerCase on the address strings of the model
ToLowerCase(s) ==
    IF s = "0xAA" THEN "0xaa" ELSE IF s = "0xDD" THEN "0xdd" ELSE s

IsAddress(s) == s \in AddrStrings

(* ------------------------------ state --------------------------------- *)

VARIABLES
    now,             \* Date.now(), in ticks
    isInitialized,   \* RelayerService.isInitialized / PolicyEngine.isInitialized
    policyRows,      \* table policy_rules, in insertion (created_at) order
    nextRuleId,      \* SERIAL id of policy_rules
    allowlistRules,  \* PolicyEngine.allowlistRules  (Map target -> rule)
    quotaRules,      \* PolicyEngine.quotaRules
    gasLimitRules,   \* PolicyEngine.gasLimitRules
    tokenLimitRules, \* PolicyEngine.tokenLimitRules
    txCount,         \* Redis sorted sets tx_count:<network>:<address>
    nonceKey,        \* Redis keys nonce:<network>:<relayer address>
    chainTxs,        \* per network, the relayer nonces the chain has accepted
    handoffs,        \* transactions handed to provider.broadcastTransaction, in order
    records,         \* table transactions, keyed by tx_hash
    pc,              \* position of each relayTransaction run
    req,             \* request of each run
    startTime,       \* relayTransaction: const startTime
    policyResult,    \* relayTransaction: const policyResult
    simulated,       \* outcome of simulateTransaction of each run
    cachedNonce,     \* getNextNonce: const cachedNonce
    onChainNonce,    \* getNextNonce: const onChainNonce
    txNonce,         \* relayTransaction: transaction.nonce
    txHash,          \* relayTransaction: let txHash
    result,          \* RelayResult returned by each run
    polReq,          \* SpecPolicy: the request last given to checkPolicies
    polOut,          \* SpecPolicy: what checkPolicies returned for it
    feeReq,          \* SpecFee: the request a transaction was built for
    txGasPrice,      \* relayTransaction: transaction.gasPrice
    txGasLimit,      \* relayTransaction: transaction.gasLimit
    sigOrig,         \* SpecVerify: the request as its sender signed it
    sigReq,          \* SpecVerify: the request as the relayer receives it
    sigOk,           \* SpecVerify: verifyMetaTransactionSignature returned
    sigEdits,        \* SpecVerify: fields changed since the signing
    listReq,         \* SpecList: the last GET /transactions/:address
    listOut,         \* SpecList: its response
    boot,            \* RelayerBackend.start: the step it is at
    up,              \* the services that answer at present
    healthy,         \* the services that have answered the backend once
    readyOut,        \* the last response of GET /health/ready
    wmOwner,         \* WithdrawManager: Ownable._owner
    wmPaused,        \* WithdrawManager: Pausable._paused
    wmForwarder,     \* WithdrawManager: ERC2771Context._trustedForwarder
    allowance,       \* TestERC20: allowance of each account to WithdrawManager
    nftApprovals,    \* TestERC721 / TestERC1155: approvals given to WithdrawManager
    lastCall,        \* the last transaction sent to a contract
    callOut,         \* "ok", or the error it reverted with
    gOwner,          \* Guardian: Ownable._owner
    gPaused,         \* Guardian: Pausable._paused
    gRoles,          \* TimelockController: the roles Guardian holds
    operations,      \* TimelockController._timestamps of the scheduled ids
    blockTime,       \* block.timestamp, in units of 12 hours
    countOut,        \* SpecWindow: the last read of a tx_count window
    rateSet,         \* the sorted set rate_limit:<identifier>: its scores
    rateCall         \* checkRateLimit: position and locals of each call

engineVars == <<allowlistRules, quotaRules, gasLimitRules, tokenLimitRules>>
ruleVars == <<policyRows, nextRuleId>>
chainVars == <<chainTxs, handoffs>>
runVars == <<pc, req, startTime, policyResult, simulated, cachedNonce, onChainNonce,
             txNonce, txHash, result>>
probeVars == <<polReq, polOut>>
feeVars == <<feeReq, txGasPrice, txGasLimit>>
sigVars == <<sigOrig, sigReq, sigOk, sigEdits>>
listVars == <<listReq, listOut>>
healthVars == <<boot, up, healthy, readyOut>>
wmVars == <<wmOwner, wmPaused, wmForwarder, allowance, nftApprovals>>
callVars == <<lastCall, callOut>>
guardianVars == <<gOwner, gPaused, gRoles, operations, blockTime>>
contractVars == <<wmVars, callVars, guardianVars>>
rateVars == <<rateSet, rateCall>>
lateVars == <<countOut, rateVars>>
auxVars == <<listVars, healthVars, contractVars, lateVars>>

vars == <<now, isInitialized, policyRows, nextRuleId, allowlistRules,
          quotaRules, gasLimitRules, tokenLimitRules, txCount, nonceKey,
          chainTxs, handoffs, records, pc, req, startTime, policyResult,
          simulated,
          cachedNonce, onChainNonce, txNonce, txHash, result, polReq, polOut,
          feeReq, txGasPrice, txGasLimit, sigOrig, sigReq, sigOk, sigEdits,
          listReq, listOut, boot, up, healthy, readyOut,
          wmOwner, wmPaused, wmForwarder, allowance, nftApprovals,
          lastCall, callOut, gOwner, gPaused, gRoles, operations,
          blockTime, countOut, rateSet, rateCall>>

Procs == 1..NumRuns

(* --------------------------- policy engine ---------------------------- *)

\* request.amount / request.tokenAddress absent
NoAmount == -1
NoToken == ""

Allowed == [allowed |-> TRUE, reason |-> ""]
Rejected(why) == [allowed |-> FALSE, reason |-> why]

NetworkAllowlistReason(network) ==
    IF network = "localhost" THEN "Address not in localhost allowlist"
    ELSE "Address not in polygon allowlist"

NetworkGasReason(network) ==
    IF network = "localhost" THEN "Gas limit exceeds localhost maximum"
    ELSE "Gas limit exceeds polygon maximum"

\* rule.addresses.some(addr => addr.toLowerCase() === request.from.toLowerCase())
InAddressList(addresses, from) ==
    \E addr \in addresses : ToLowerCase(addr) = ToLowerCase(from)

\* an allowlist stage that takes an empty address list for "no restriction"
checkAllowlistEmptyAllows(request) ==
    IF "*" \in DOMAIN allowlistRules
       /\ allowlistRules["*"].addresses # {}
       /\ ~InAddressList(allowlistRules["*"].addresses, request.from)
    THEN Rejected("Address not in global allowlist")
    ELSE IF request.network \in DOMAIN allowlistRules
            /\ allowlistRules[request.network].addresses # {}
            /\ ~InAddressList(allowlistRules[request.network].addresses, request.from)
    THEN Rejected(NetworkAllowlistReason(request.network))
    ELSE Allowed

checkAllowlist(request) ==
    IF "*" \in DOMAIN allowlistRules
       /\ ~InAddressList(allowlistRules["*"].addresses, request.from)
    THEN Rejected("Address not in global allowlist")
    ELSE IF request.network \in DOMAIN allowlistRules
            /\ ~InAddressList(allowlistRules[request.network].addresses, request.from)
    THEN Rejected(NetworkAllowlistReason(request.network))
    ELSE Allowed

\* client.zRemRangeByScore(key, 0, windowStart): the scores left in the set
ZRemRangeByScore(scores, lo, hi) ==
    SelectSeq(scores, LAMBDA t : ~(lo <= t /\ t <= hi))

\* getTransactionCount: trims the sorted set, then counts it; the catch
\* block answers 0 when the cache cannot be reached
\* [count, scores]: the count returned and the sorted set afterwards
getTransactionCount(scores, timeWindow) ==
    LET left == ZRemRangeByScore(scores, 0, now - timeWindow)
    IN  IF "redis" \notin up THEN [count |-> 0, scores |-> scores]
        ELSE [count |-> Len(left), scores |-> left]

\* placeholder of the source: always 0
getTransactionValue(address, network, timeWindow) == 0

getTokenTransactionAmount(address, tokenAddress, network, timeWindow) == 0

\* [res, scores]: the PolicyResult and the tx_count set of the address afterwards
checkAddressQuota(address, request, rule, scores) ==
    LET hourly == getTransactionCount(scores, OneHour)
        daily == getTransactionCount(hourly.scores, OneDay)
        txValue == request.value
    IN  IF hourly.count >= rule.maxTransactionsPerHour
        THEN [res |-> Rejected("Hourly transaction limit exceeded"),
              scores |-> hourly.scores]
        ELSE IF daily.count >= rule.maxTransactionsPerDay
        THEN [res |-> Rejected("Daily transaction limit exceeded"),
              scores |-> daily.scores]
        ELSE IF txValue > rule.maxValuePerTransaction
        THEN [res |-> Rejected("Transaction value exceeds limit"),
              scores |-> daily.scores]
        ELSE IF getTransactionValue(address, request.network, OneHour) + txValue
                  > rule.maxValuePerHour
        THEN [res |-> Rejected("Hourly value limit would be exceeded"),
              scores |-> daily.scores]
        ELSE IF getTransactionValue(address, request.network, OneDay) + txValue
                  > rule.maxValuePerDay
        THEN [res |-> Rejected("Daily value limit would be exceeded"),
              scores |-> daily.scores]
        ELSE [res |-> Allowed, scores |-> daily.scores]

checkQuotas(request, scores) ==
    LET address == ToLowerCase(request.from)
        global == IF "*" \in DOMAIN quotaRules
                  THEN checkAddressQuota(address, request, quotaRules["*"], scores)
                  ELSE [res |-> Allowed, scores |-> scores]
    IN  IF ~global.res.allowed THEN global
        ELSE IF address \in DOMAIN quotaRules
        THEN checkAddressQuota(address, request, quotaRules[address], global.scores)
        ELSE global

\* a gas field or a maxGasLimit that is not the text of an integer
NotNumeric == -2

\* BigInt(x) throws a SyntaxError or a TypeError
BigIntThrows(x) == x = NotNumeric

\* checkGasLimits throws: BigInt(request.gas) or BigInt(rule.maxGasLimit) of
\* a rule it gets to
checkGasLimitsThrows(request) ==
    LET throwsAt(target) ==
            \/ BigIntThrows(request.gas)
            \/ BigIntThrows(gasLimitRules[target].maxGasLimit)
    IN  IF "*" \in DOMAIN gasLimitRules /\ throwsAt("*") THEN TRUE
        ELSE IF "*" \in DOMAIN gasLimitRules
                /\ request.gas > gasLimitRules["*"].maxGasLimit
        THEN FALSE
        ELSE request.network \in DOMAIN gasLimitRules /\ throwsAt(request.network)

checkGasLimits(request) ==
    IF "*" \in DOMAIN gasLimitRules
       /\ request.gas > gasLimitRules["*"].maxGasLimit
    THEN Rejected("Gas limit exceeds maximum allowed")
    ELSE IF request.network \in DOMAIN gasLimitRules
            /\ request.gas > gasLimitRules[request.network].maxGasLimit
    THEN Rejected(NetworkGasReason(request.network))
    ELSE Allowed

checkTokenAmountLimits(address, tokenAddress, amount, network, rule) ==
    IF tokenAddress \in DOMAIN rule.maxAmountPerTransaction
       /\ amount > rule.maxAmountPerTransaction[tokenAddress]
    THEN Rejected("Token amount exceeds per-transaction limit")
    ELSE IF tokenAddress \in DOMAIN rule.maxAmountPerHour
            /\ getTokenTransactionAmount(address, tokenAddress, network, OneHour)
                 + amount > rule.maxAmountPerHour[tokenAddress]
    THEN Rejected("Token hourly limit would be exceeded")
    ELSE IF tokenAddress \in DOMAIN rule.maxAmountPerDay
            /\ getTokenTransactionAmount(address, tokenAddress, network, OneDay)
                 + amount > rule.maxAmountPerDay[tokenAddress]
    THEN Rejected("Token daily limit would be exceeded")
    ELSE Allowed

checkTokenLimits(request) ==
    IF request.tokenAddress = NoToken \/ request.amount = NoAmount
    THEN Allowed
    ELSE LET tokenAddress == ToLowerCase(request.tokenAddress)
         IN  IF "*" \notin DOMAIN tokenLimitRules THEN Allowed
             ELSE LET globalRule == tokenLimitRules["*"]
                  IN  IF globalRule.allowedTokens # {}
                         /\ ~(\E addr \in globalRule.allowedTokens :
                                 ToLowerCase(addr) = tokenAddress)
                      THEN Rejected("Token not in allowed list")
                      ELSE checkTokenAmountLimits(request.from, tokenAddress,
                               request.amount, request.network, globalRule)

\* the four stages in another order: gas limits first
checkPoliciesGasFirst(request, scores) ==
    LET quota == checkQuotas(request, scores)
    IN  IF ~checkGasLimits(request).allowed
        THEN [res |-> checkGasLimits(request), scores |-> scores]
        ELSE IF ~checkAllowlist(request).allowed
        THEN [res |-> checkAllowlist(request), scores |-> scores]
        ELSE IF ~quota.res.allowed THEN quota
        ELSE IF ~checkTokenLimits(request).allowed
        THEN [res |-> checkTokenLimits(request), scores |-> quota.scores]
        ELSE [res |-> Allowed, scores |-> quota.scores]

\* checkPolicies of an initialized engine; its catch block answers
\* 'Policy check failed'
\* [res, scores]: the PolicyResult and the tx_count set of request.from afterwards
checkPolicies(request, scores) ==
    LET allowlistResult == checkAllowlist(request)
        quota == checkQuotas(request, scores)
        gasLimitResult == checkGasLimits(request)
        tokenLimitResult == checkTokenLimits(request)
    IN  IF ~allowlistResult.allowed
        THEN [res |-> allowlistResult, scores |-> scores]
        ELSE IF ~quota.res.allowed THEN quota
        ELSE IF checkGasLimitsThrows(request)
        THEN [res |-> Rejected("Policy check failed"), scores |-> quota.scores]
        ELSE IF ~gasLimitResult.allowed
        THEN [res |-> gasLimitResult, scores |-> quota.scores]
        ELSE IF ~tokenLimitResult.allowed
        THEN [res |-> tokenLimitResult, scores |-> quota.scores]
        ELSE [res |-> Allowed, scores |-> quota.scores]

\* the sorted set tx_count:<network>:<address> a request is counted in
CountKey(request) == <<request.network, ToLowerCase(request.from)>>

(* ----------------------- policy rules in the store --------------------- *)

AllowlistValue(addresses) == [addresses |-> addresses]

QuotaValue(perHour, perDay, perTx, valueHour, valueDay) ==
    [maxTransactionsPerHour |-> perHour, maxTransactionsPerDay |-> perDay,
     maxValuePerTransaction |-> perTx, maxValuePerHour |-> valueHour,
     maxValuePerDay |-> valueDay]

GasLimitValue(gasLimit, gasPrice) ==
    [maxGasLimit |-> gasLimit, maxGasPrice |-> gasPrice]

TokenLimitValue(tokens, perTx, perHour, perDay) ==
    [allowedTokens |-> tokens, maxAmountPerTransaction |-> perTx,
     maxAmountPerHour |-> perHour, maxAmountPerDay |-> perDay]

PolicyRule(id, type, target, value, enabled) ==
    [id |-> id, rule_type |-> type, target |-> target, value |-> value,
     enabled |-> enabled]

Reverse(seq) == [i \in 1..Len(seq) |-> seq[Len(seq) + 1 - i]]

\* SELECT * FROM policy_rules WHERE enabled = true ORDER BY created_at DESC
getPolicyRules(rows) == Reverse(SelectSeq(rows, LAMBDA r : r.enabled))

\* Map.prototype.set
MapSet(map, key, value) ==
    [k \in (DOMAIN map) \cup {key} |-> IF k = key THEN value ELSE map[k]]

EmptyMap == [k \in {} |-> 0]

\* the loop of loadPolicyRules over the rows of one rule type, from row i on
RECURSIVE LoadRulesOfType(_, _, _, _)
LoadRulesOfType(rules, type, i, map) ==
    IF i > Len(rules) THEN map
    ELSE LoadRulesOfType(rules, type, i + 1,
             IF rules[i].rule_type = type
             THEN MapSet(map, rules[i].target, rules[i].value)
             ELSE map)

\* a value column that is not JSON text
MalformedValue == [malformed |-> TRUE]

\* JSON.parse(rule.value) returns
JsonParses(value) == "malformed" \notin DOMAIN value

AllParse(rules) == \A i \in 1..Len(rules) : JsonParses(rules[i].value)

\* the rules the loop of loadPolicyRules gets through: all of them, or those
\* before the first one whose JSON.parse throws
ParsedPrefix(rules) ==
    IF AllParse(rules) THEN rules
    ELSE LET bad == CHOOSE i \in 1..Len(rules) :
                      /\ ~JsonParses(rules[i].value)
                      /\ \A j \in 1..(i - 1) : JsonParses(rules[j].value)
         IN  SubSeq(rules, 1, bad - 1)

\* loadPolicyRules: the four maps are cleared and refilled from the store,
\* up to the row at which it throws
loadPolicyRules(rows) ==
    LET rules == ParsedPrefix(getPolicyRules(rows))
    IN  /\ allowlistRules' = LoadRulesOfType(rules, "allowlist", 1, EmptyMap)
        /\ quotaRules' = LoadRulesOfType(rules, "quota", 1, EmptyMap)
        /\ gasLimitRules' = LoadRulesOfType(rules, "gas_limit", 1, EmptyMap)
        /\ tokenLimitRules' = LoadRulesOfType(rules, "token_limit", 1, EmptyMap)

(* ------------------------------- chain -------------------------------- *)

\* provider.getTransactionCount(address, 'pending'): the first nonce the
\* chain has not yet seen in sequence
PendingCount(network) ==
    CHOOSE n \in ChainNonce0..(ChainNonce0 + NumRuns) :
        /\ n \notin chainTxs[network]
        /\ \A m \in ChainNonce0..(n - 1) : m \in chainTxs[network]

\* the node takes a signed transaction unless its nonce is already used
ChainAccepts(network, nonce) ==
    nonce >= ChainNonce0 /\ nonce \notin chainTxs[network]

\* a transaction can be mined once every lower nonce has been broadcast
Executable(network, nonce) ==
    \A m \in ChainNonce0..(nonce - 1) : m \in chainTxs[network]

\* the hash of the signed bytes: a function of the signed fields
TxHashOf(request, nonce) ==
    [network |-> request.network, nonce |-> nonce, to |-> request.to,
     value |-> request.value]

NoHash == [network |-> "", nonce |-> NoNonce, to |-> "", value |-> 0]

\* one call of provider.broadcastTransaction: the transaction handed over and
\* whether the node took it
Handoff(hash, accepted) == [tx |-> hash, accepted |-> accepted]

(* --------------------------- Redis nonce key --------------------------- *)

NoKey == [val |-> NoNonce, exp |-> 0]

\* a key is gone once its time to live has run out
Live(key) == key.val # NoNonce /\ now < key.exp

\* RedisService.getCurrentNonce: GET; null when the key is missing
getCurrentNonce(network) ==
    IF Live(nonceKey[network]) THEN nonceKey[network].val ELSE NoNonce

\* RedisService.getNextNonce: INCR (a missing key counts from 0), EXPIRE 3600
\* [ret, key]: the value returned and the key afterwards
getNextNonce(network) ==
    LET incr == IF Live(nonceKey[network]) THEN nonceKey[network].val + 1 ELSE 1
    IN  [ret |-> incr - 1, key |-> [val |-> incr, exp |-> now + NonceTtl]]

\* RedisService.setNonce: SET, EXPIRE 3600
setNonce(nonce) == [val |-> nonce, exp |-> now + NonceTtl]

(* -------------------------- tx_count windows --------------------------- *)

\* the most entries put into one sorted set
MaxEntries == 3

\* one read of a window: the window asked for, the time of the read, the
\* sorted set before it, the count returned and the sorted set after it
CountRead(window, at, before, count, after) ==
    [window |-> window, at |-> at, before |-> before, count |-> count,
     after |-> after]

NoCount == CountRead(0, 0, <<>>, 0, <<>>)

\* the sorted set the reads of SpecWindow go to
WindowKey == <<"localhost", "0xaa">>

(* ----------------------------- rate limit ------------------------------ *)

\* the calls of checkRateLimit, all with the same identifier, windowMs and
\* maxRequests
NumRateCalls == 3
RateCalls == 1..NumRateCalls

\* the arguments windowMs and maxRequests of the calls
WindowMs == 2
MaxRequests == 1

\* a call of checkRateLimit: where it is, its `now`, its `currentCount` and
\* the `allowed` of its result
RateCall(at, time, count, allowed) ==
    [pc |-> at, now |-> time, currentCount |-> count, allowed |-> allowed]

NoRateCall == RateCall("idle", 0, 0, FALSE)

(* ------------------------- listing endpoint ---------------------------- *)

\* `parseInt(req.query.limit) || 100`, scaled
DefaultListLimit == 2

\* `if (limit > 1000)`, scaled: the default is below the maximum
MaxListLimit == 3

ListRequest(address, limit) == [address |-> address, limit |-> limit]

NoListRequest == ListRequest("", 0)

\* res.json({success: true, data: {address, transactions, total}})
ListResponse(transactions, total) ==
    [success |-> TRUE, transactions |-> transactions, total |-> total]

\* ValidationError
ListError == [success |-> FALSE, transactions |-> <<>>, total |-> 0]

NoListResponse == ListError

\* WHERE from_address = $1 OR to_address = $1
Matching(table, address) ==
    {hash \in DOMAIN table :
        table[hash].from_address = address \/ table[hash].to_address = address}

\* ORDER BY created_at DESC over a set of rows: every order the query may
\* answer in, rows of one created_at in any order
OrderedRows(table, hashes) ==
    {rows \in [1..Cardinality(hashes) -> hashes] :
        /\ \A i, j \in DOMAIN rows : i < j =>
              /\ rows[i] # rows[j]
              /\ table[rows[i]].created_at >= table[rows[j]].created_at}

\* the first n elements, Array.prototype.slice(0, n) and SQL LIMIT n
Take(seq, n) == SubSeq(seq, 1, IF n < Len(seq) THEN n ELSE Len(seq))

\* DatabaseService.getTransactionsByAddress(address, limit = 100): the
\* answers the query may give, as sequences of tx_hash
getTransactionsByAddress(table, address, limit) ==
    {Take(rows, limit) : rows \in OrderedRows(table, Matching(table, address))}

\* parseInt(req.query.limit as string) || 100
ParseLimit(limit) == IF limit = 0 THEN DefaultListLimit ELSE limit

(* --------------------------- health routes ----------------------------- *)

\* the Store, the Counter Cache and the chain clients of the configured
\* networks
Services == {"database", "redis"} \cup Networks

(* ------------------------------ contracts ------------------------------ *)

\* the accounts that send transactions: the deployer and two others
Accounts == {"0xaa", "0xbb", "0xcc"}

\* the account that deploys the contracts: Ownable(_msgSender())
Deployer == "0xaa"

ZeroAddress == "0x0"

\* the deployed GaslessMinimalForwarder contracts
Forwarders == {"0xf0", "0xf1"}

\* a transaction to a contract: msg.sender, the address appended to the
\* calldata (by a forwarder, after it verified the signature of that
\* account), the function and its arguments
Call(caller, fn, args) ==
    [sender |-> caller.sender, appended |-> caller.appended, fn |-> fn,
     args |-> args]

NoCall == [sender |-> "", appended |-> "", fn |-> "", args |-> <<>>]

\* the blocks mined after deployment, 12 hours apart
MaxBlockTime == 3

\* Guardian.MIN_DELAY = 24 hours, in units of 12 hours
MIN_DELAY == 2

\* TimelockController._timestamps: 0 for an id never scheduled,
\* _DONE_TIMESTAMP for an executed one
NotScheduled == 0
DoneTimestamp == 1

\* the ids timelock.hashOperation gives to the operations of the model
OpIds == {"op1"}

\* the ways an account reaches a contract: directly, with a signed request
\* through a forwarder, or directly with the address of another account
\* appended to the calldata
Callers ==
    {[sender |-> a, appended |-> ""] : a \in Accounts}
    \cup {[sender |-> "0xf0", appended |-> a] : a \in {"0xaa", "0xbb"}}
    \cup {[sender |-> "0xf1", appended |-> "0xaa"],
          [sender |-> "0xcc", appended |-> "0xaa"]}

\* the account a call comes from
Origin(caller) ==
    IF caller.sender \in Forwarders THEN caller.appended ELSE caller.sender

\* Context._msgSender: msg.sender
contextMsgSender(caller) == caller.sender

\* _msgSender that takes the appended address from any caller
msgSenderUnchecked(caller, forwarder) ==
    IF caller.appended # "" THEN caller.appended ELSE caller.sender

\* ERC2771Context._msgSender: the appended address when msg.sender is the
\* trusted forwarder, else msg.sender
msgSender(caller, forwarder) ==
    IF caller.sender = forwarder THEN caller.appended ELSE caller.sender

\* TestERC20.balanceOf
Erc20Balance(account) == IF account = "0xbb" THEN 2 ELSE 0

\* TestERC721.ownerOf(1), the token that exists
NftOwner == "0xbb"

\* TestERC1155.balanceOf(account, 1)
Erc1155Balance(account) == IF account = "0xbb" THEN 2 ELSE 0

(* --------------------------- relay pipeline ---------------------------- *)

\* ethers.verifyTypedData returns the signing account in checksum spelling
ToChecksum(s) == IF s = "0xaa" THEN "0xAA" ELSE s

\* the account whose key signed the request under the MinimalForwarder
\* domain of request.network, as verifyTypedData recovers it
verifyTypedData(request) == ToChecksum(request.signedBy)

\* a check that takes any signature that is present
SignatureNotCompared(request) == request.signedBy # ""

\* verifyMetaTransactionSignature: TRUE when it returns, FALSE when it throws
SignatureValid(request) ==
    ToLowerCase(verifyTypedData(request)) = ToLowerCase(request.from)

(* ------------------ EIP-712 signature verification --------------------- *)

\* the most fields of a signed request that are changed on its way
MaxEdits == 1

\* config.blockchain.networks[network].chainId
ChainId(network) ==
    IF network = "ethereum" THEN 1
    ELSE IF network = "polygon" THEN 137
    ELSE 31337

\* config.blockchain.networks[network].contracts.forwarder: the forwarder
\* deployed at the same address on every network
ForwarderAddress(network) == "0xf0"

\* the EIP-712 domain verifyMetaTransactionSignature builds
Domain(network) ==
    [name |-> "MinimalForwarder", version |-> "0.0.1",
     chainId |-> ChainId(network),
     verifyingContract |-> ForwarderAddress(network)]

\* a value object that leaves the nonce out
ForwardRequestNoNonce(request) ==
    [from |-> ToLowerCase(request.from), to |-> ToLowerCase(request.to),
     value |-> request.value, gas |-> request.gas, data |-> request.data]

\* the value object of type ForwardRequest; an address is encoded as its 20
\* bytes, whatever the letter case of its spelling
ForwardRequest(request) ==
    [from |-> ToLowerCase(request.from), to |-> ToLowerCase(request.to),
     value |-> request.value, gas |-> request.gas, nonce |-> request.nonce,
     data |-> request.data]

\* TypedDataEncoder.hash(domain, types, value): no two inputs share a digest
TypedDataHash(domain, value) == [domain |-> domain, message |-> value]

\* signer.signTypedData of the sender: the signature of the key of the
\* account signer over the digest
signTypedData(signer, domain, value) ==
    [signer |-> ToLowerCase(signer), digest |-> TypedDataHash(domain, value)]

\* bytes that are no signature
MalformedSignature ==
    [signer |-> "", digest |-> [domain |-> Domain(""), message |-> <<>>]]

\* the account a signature recovers to over a digest it was not made for:
\* an address nobody holds the key of
UnrelatedAddress == "0x00"

\* ethers.verifyTypedData(domain, types, value, signature): the recovered
\* account in checksum spelling, "" when it throws
recoverTypedData(domain, value, signature) ==
    IF signature.signer = "" THEN ""
    ELSE IF signature.digest = TypedDataHash(domain, value)
         THEN ToChecksum(signature.signer)
         ELSE UnrelatedAddress

\* verifyMetaTransactionSignature: TRUE when it returns, FALSE when it throws
verifyMetaTransactionSignature(request) ==
    IF request.network \notin Networks THEN FALSE
    ELSE LET recoveredAddress ==
                 recoverTypedData(Domain(request.network), ForwardRequest(request),
                                  request.signature)
         IN  /\ recoveredAddress # ""
             /\ ToLowerCase(recoveredAddress) = ToLowerCase(request.from)

\* MetaTransactionRequest with the fields the signature covers
MetaTransactionRequest(from, to, value, gas, nonce, data, network, signature) ==
    [from |-> from, to |-> to, value |-> value, gas |-> gas, nonce |-> nonce,
     data |-> data, network |-> network, signature |-> signature]

NoSigned == MetaTransactionRequest("", "", 0, 0, 0, "", "", MalformedSignature)

\* a request with the signature of its from account over its own fields
\* under the domain of its own network
Signed(request) ==
    [request EXCEPT !.signature =
        signTypedData(request.from, Domain(request.network), ForwardRequest(request))]

\* the requests senders sign in SpecVerify
SignedRequests ==
    {Signed(MetaTransactionRequest(from, to, value, gas, nonce, data, network,
                                   MalformedSignature)) :
        from \in {"0xaa", "0xAA", "0xbb"}, to \in {"0xcc", "0xdd"},
        value \in {0, 1}, gas \in {1, 2}, nonce \in {0, 1},
        data \in {"0x", "0x01"}, network \in Networks}

SignedFields == {"from", "to", "value", "gas", "nonce", "data", "network", "signature"}

\* the values a field of a request on its way is changed to: for the
\* signature, bytes that are no signature, the signature of another account
\* over the same data, and the sender's own signatures over another nonce
\* and under the domain of another network
FieldValues(request, field) ==
    CASE field = "from" -> {"0xaa", "0xAA", "0xbb"}
      [] field = "to" -> {"0xcc", "0xdd"}
      [] field = "value" -> {0, 1}
      [] field = "gas" -> {1, 2}
      [] field = "nonce" -> {0, 1}
      [] field = "data" -> {"0x", "0x01"}
      [] field = "network" -> Networks
      [] field = "signature" ->
            {MalformedSignature}
            \cup {signTypedData(k, Domain(request.network), ForwardRequest(request)) :
                    k \in {"0xaa", "0xbb"}}
            \cup {signTypedData(request.from, Domain(n), ForwardRequest(request)) :
                    n \in Networks}
            \cup {signTypedData(request.from, Domain(request.network),
                                ForwardRequest([request EXCEPT !.nonce = 1 - @]))}

\* a sender signs a request and the relayer verifies it as it was signed
VerifySigned(request) ==
    /\ sigOrig = NoSigned
    /\ sigOrig' = request
    /\ sigReq' = request
    /\ sigEdits' = 0
    /\ sigOk' = verifyMetaTransactionSignature(request)
    /\ UNCHANGED <<now, isInitialized, ruleVars, engineVars, txCount, nonceKey,
                   chainVars, records, runVars, probeVars, feeVars, auxVars>>

\* one field of the request is changed on its way and the relayer verifies
\* what it receives
VerifyChanged(field, v) ==
    /\ sigOrig # NoSigned
    /\ sigEdits < MaxEdits
    /\ v # sigReq[field]
    /\ sigReq' = [sigReq EXCEPT ![field] = v]
    /\ sigEdits' = sigEdits + 1
    /\ sigOk' = verifyMetaTransactionSignature(sigReq')
    /\ UNCHANGED <<now, isInitialized, ruleVars, engineVars, txCount, nonceKey,
                   chainVars, records, runVars, probeVars, feeVars, sigOrig,
                   auxVars>>

\* validateRequest without the two comparisons against the configured
\* ceilings
validateRequestNoCeilings(request) ==
    IF ~IsAddress(request.from) THEN "Invalid from address"
    ELSE IF ~IsAddress(request.to) THEN "Invalid to address"
    ELSE IF request.signedBy = "" THEN "Signature is required"
    ELSE IF request.network \notin Networks THEN "Unsupported network"
    ELSE ""

\* validateRequest: "" when it returns, else the message of the Error thrown
validateRequest(request) ==
    IF ~IsAddress(request.from) THEN "Invalid from address"
    ELSE IF ~IsAddress(request.to) THEN "Invalid to address"
    ELSE IF request.signedBy = "" THEN "Signature is required"
    ELSE IF request.network \notin Networks THEN "Unsupported network"
    ELSE IF request.gas > MaxGasLimit THEN "Gas limit too high"
    ELSE IF request.value > MaxValuePerTransaction THEN "Transaction value too high"
    ELSE ""

Request(from, signedBy, network, value, gas) ==
    [from |-> from, to |-> "0xdd", value |-> value, gas |-> gas,
     signedBy |-> signedBy, network |-> network,
     tokenAddress |-> NoToken, amount |-> NoAmount]

NoRequest == Request("", "", "", 0, 0)

\* the requests the relay runs are given
RelayRequests ==
    { Request("0xaa", "0xaa", "localhost", 1, 1),
      Request("0xaa", "0xbb", "localhost", 1, 1),
      Request("0xcc", "0xcc", "localhost", 1, 1),
      Request("0xbb", "0xbb", "localhost", 1, MaxGasLimit + 1) }

NoResult == [success |-> FALSE, txHash |-> NoHash, error |-> "", reason |-> ""]

\* the catch block of relayTransaction
Failure(message, reason) ==
    [success |-> FALSE, txHash |-> NoHash, error |-> message, reason |-> reason]

Success(hash) == [success |-> TRUE, txHash |-> hash, error |-> "", reason |-> ""]

\* a run that goes on whatever checkPolicies returned
AfterPolicyIgnored(res) == "verify"

\* where a run goes after checkPolicies has returned
AfterPolicy(res) == IF res.allowed THEN "verify" ELSE "done"

\* where a run goes after verifyMetaTransactionSignature
AfterVerify(request) == IF SignatureValid(request) THEN "simulate" ELSE "done"

\* a simulation failure that leaves relayTransaction as an exception
AfterSimulateUncaught(ok) == IF ok THEN "nonce_get" ELSE "threw"

\* where a run goes after simulateTransaction
AfterSimulate(ok) == IF ok THEN "nonce_get" ELSE "done"

\* the row relayTransaction inserts; created_at DEFAULT CURRENT_TIMESTAMP
TransactionRecord(hash, request) ==
    [tx_hash |-> hash, from_address |-> request.from, to_address |-> request.to,
     network |-> request.network, status |-> "pending", created_at |-> now]

\* the runs that have been entered and have not returned
InFlight == {q \in Procs : pc[q] \notin {"idle", "done", "threw"}}

\* relayTransaction up to the first await that leaves the process:
\* the isInitialized guard and validateRequest
RelayTransaction(p, request) ==
    /\ pc[p] = "idle"
    /\ \A q \in Procs : q < p => pc[q] # "idle"
    /\ Cardinality(InFlight) < MaxActive
    /\ IF ~isInitialized
       THEN /\ pc' = [pc EXCEPT ![p] = "threw"]
            /\ UNCHANGED <<result, req, startTime>>
       ELSE /\ req' = [req EXCEPT ![p] = request]
            /\ startTime' = [startTime EXCEPT ![p] = now]
            /\ IF validateRequest(request) # ""
               THEN /\ pc' = [pc EXCEPT ![p] = "done"]
                    /\ result' = [result EXCEPT ![p] =
                                    Failure(validateRequest(request), "")]
               ELSE /\ pc' = [pc EXCEPT ![p] = "policy"]
                    /\ UNCHANGED result
    /\ UNCHANGED <<now, isInitialized, ruleVars, engineVars, txCount, nonceKey,
                   chainVars, records, policyResult, simulated, cachedNonce,
                   onChainNonce, txNonce, txHash, probeVars, feeVars, sigVars, auxVars>>

\* policyEngine.checkPolicies(request) and the throw on a rejection
CheckPoliciesStep(p) ==
    /\ pc[p] = "policy"
    /\ LET out == checkPolicies(req[p], txCount[CountKey(req[p])])
       IN  /\ policyResult' = [policyResult EXCEPT ![p] = out.res]
           /\ txCount' = [txCount EXCEPT ![CountKey(req[p])] = out.scores]
           /\ pc' = [pc EXCEPT ![p] = AfterPolicy(out.res)]
           /\ result' = [result EXCEPT ![p] =
                           IF AfterPolicy(out.res) = "done"
                           THEN Failure("Policy violation", out.res.reason)
                           ELSE @]
    /\ UNCHANGED <<now, isInitialized, ruleVars, engineVars, nonceKey, chainVars,
                   records, req, startTime, simulated, cachedNonce, onChainNonce, txNonce,
                   txHash, probeVars, feeVars, sigVars, auxVars>>

\* provider / signer lookup, verifyMetaTransactionSignature, then
\* simulateTransaction (provider.call returns or throws) and the read-only
\* getOptimalGasPrice and estimateGas: none of them touches shared state
VerifyStep(p) ==
    /\ pc[p] = "verify"
    /\ IF AfterVerify(req[p]) = "done"
       THEN /\ pc' = [pc EXCEPT ![p] = "done"]
            /\ result' = [result EXCEPT ![p] =
                            Failure("Invalid meta-transaction signature", "")]
            /\ UNCHANGED simulated
       ELSE \E ok \in BOOLEAN :
            /\ simulated' = [simulated EXCEPT ![p] = IF ok THEN "ok" ELSE "revert"]
            /\ pc' = [pc EXCEPT ![p] = AfterSimulate(ok)]
            /\ result' = [result EXCEPT ![p] =
                            IF AfterSimulate(ok) = "done"
                            THEN Failure("Transaction simulation failed - transaction would revert", "")
                            ELSE @]
    /\ UNCHANGED <<now, isInitialized, ruleVars, engineVars, txCount, nonceKey,
                   chainVars, records, req, startTime, policyResult, cachedNonce,
                   onChainNonce, txNonce, txHash, probeVars, feeVars, sigVars, auxVars>>

\* getNextNonce: redisService.getCurrentNonce(address, network)
NonceGet(p) ==
    /\ pc[p] = "nonce_get"
    /\ cachedNonce' = [cachedNonce EXCEPT ![p] = getCurrentNonce(req[p].network)]
    /\ pc' = [pc EXCEPT ![p] =
                IF getCurrentNonce(req[p].network) # NoNonce
                THEN "nonce_incr" ELSE "nonce_chain"]
    /\ UNCHANGED <<now, isInitialized, ruleVars, engineVars, txCount, nonceKey,
                   chainVars, records, req, startTime, policyResult, simulated,
                   onChainNonce, txNonce, txHash, result, probeVars, feeVars, sigVars, auxVars>>

\* getNextNonce: the cached branch, redisService.getNextNonce(address, network);
\* the locals of getNextNonce end with its return
NonceIncr(p) ==
    /\ pc[p] = "nonce_incr"
    /\ LET out == getNextNonce(req[p].network)
       IN  /\ nonceKey' = [nonceKey EXCEPT ![req[p].network] = out.key]
           /\ txNonce' = [txNonce EXCEPT ![p] = out.ret]
    /\ pc' = [pc EXCEPT ![p] = "broadcast"]
    /\ cachedNonce' = [cachedNonce EXCEPT ![p] = NoNonce]
    /\ UNCHANGED <<now, isInitialized, ruleVars, engineVars, txCount, chainVars,
                   records, req, startTime, policyResult, simulated, onChainNonce, txHash,
                   result, probeVars, feeVars, sigVars, auxVars>>

\* getNextNonce: provider.getTransactionCount(address, 'pending')
NonceChain(p) ==
    /\ pc[p] = "nonce_chain"
    /\ onChainNonce' = [onChainNonce EXCEPT ![p] = PendingCount(req[p].network)]
    /\ pc' = [pc EXCEPT ![p] = "nonce_set"]
    /\ UNCHANGED <<now, isInitialized, ruleVars, engineVars, txCount, nonceKey,
                   chainVars, records, req, startTime, policyResult, simulated, cachedNonce,
                   txNonce, txHash, result, probeVars, feeVars, sigVars, auxVars>>

\* getNextNonce: redisService.setNonce, return onChainNonce
NonceSet(p) ==
    /\ pc[p] = "nonce_set"
    /\ nonceKey' = [nonceKey EXCEPT ![req[p].network] = setNonce(onChainNonce[p])]
    /\ txNonce' = [txNonce EXCEPT ![p] = onChainNonce[p]]
    /\ pc' = [pc EXCEPT ![p] = "broadcast"]
    /\ cachedNonce' = [cachedNonce EXCEPT ![p] = NoNonce]
    /\ UNCHANGED <<now, isInitialized, ruleVars, engineVars, txCount, chainVars,
                   records, req, startTime, policyResult, simulated, onChainNonce, txHash,
                   result, probeVars, feeVars, sigVars, auxVars>>

\* config.relayer.flashbots.enabled, FLASHBOTS_ENABLED=true in the deployment
FlashbotsEnabled == TRUE

\* the branch relayTransaction takes to send the transaction
UsesFlashbots(request) == FlashbotsEnabled /\ request.network = "ethereum"

\* the FlashbotsBundleResult of the catch block of sendBundle
BundleError == [txHash |-> NoHash, success |-> FALSE]

\* the FlashbotsBundleResult after submitToFlashbots has returned
BundleResult(hash, success) == [txHash |-> hash, success |-> success]

\* relayTransaction reading the result of sendBundle: txHash = result.txHash
BundleHash(bundle) == bundle.txHash

\* flashbotsService.sendBundle([transaction], signer): signing or the relay
\* call throws and the catch block answers, or the relay answers with an
\* error, or the relay takes the bundle; relayTransaction goes on to save
\* the record without waiting for a receipt
SendBundleStep(p) ==
    /\ pc[p] = "broadcast"
    /\ UsesFlashbots(req[p])
    /\ \E outcome \in {"threw", "submitted"} :
         LET hash == TxHashOf(req[p], txNonce[p])
             taken == ChainAccepts(req[p].network, txNonce[p])
             bundle == IF outcome = "threw" THEN BundleError
                       ELSE BundleResult(hash, taken)
         IN  /\ handoffs' = IF outcome = "threw" THEN handoffs
                            ELSE Append(handoffs, Handoff(hash, taken))
             /\ chainTxs' = IF outcome = "submitted" /\ taken
                            THEN [chainTxs EXCEPT ![req[p].network] =
                                     @ \cup {txNonce[p]}]
                            ELSE chainTxs
             /\ txHash' = [txHash EXCEPT ![p] = BundleHash(bundle)]
             /\ pc' = [pc EXCEPT ![p] = "save"]
    /\ UNCHANGED <<now, isInitialized, ruleVars, engineVars, txCount, nonceKey,
                   records, req, startTime, policyResult, simulated, cachedNonce,
                   onChainNonce, txNonce, result, probeVars, feeVars, sigVars, auxVars>>

\* signer.signTransaction(transaction) returns the signed bytes or throws;
\* provider.broadcastTransaction(signedTx): the node takes the transaction
\* and answers with its hash, or the call throws
BroadcastStep(p) ==
    /\ pc[p] = "broadcast"
    /\ ~UsesFlashbots(req[p])
    /\ \E signed \in BOOLEAN :
         LET hash == TxHashOf(req[p], txNonce[p])
         IN  IF ~signed
             THEN /\ pc' = [pc EXCEPT ![p] = "done"]
                  /\ result' = [result EXCEPT ![p] =
                                  Failure("signTransaction failed", "")]
                  /\ UNCHANGED <<chainTxs, handoffs, txHash>>
             ELSE /\ handoffs' = Append(handoffs,
                                    Handoff(hash, ChainAccepts(req[p].network, txNonce[p])))
                  /\ IF ChainAccepts(req[p].network, txNonce[p])
                     THEN /\ chainTxs' = [chainTxs EXCEPT ![req[p].network] =
                                             @ \cup {txNonce[p]}]
                          /\ txHash' = [txHash EXCEPT ![p] = hash]
                          /\ pc' = [pc EXCEPT ![p] = "wait"]
                          /\ UNCHANGED result
                     ELSE /\ pc' = [pc EXCEPT ![p] = "done"]
                          /\ result' = [result EXCEPT ![p] =
                                          Failure("broadcastTransaction failed", "")]
                          /\ UNCHANGED <<chainTxs, txHash>>
    /\ UNCHANGED <<now, isInitialized, ruleVars, engineVars, txCount, nonceKey,
                   records, req, startTime, policyResult, simulated, cachedNonce,
                   onChainNonce, txNonce, probeVars, feeVars, sigVars, auxVars>>

\* tx.wait(): resolves with the receipt of a mined transaction, throws when
\* the transaction reverted
WaitStep(p) ==
    /\ pc[p] = "wait"
    /\ Executable(req[p].network, txNonce[p])
    /\ \E mined \in BOOLEAN :
         /\ pc' = [pc EXCEPT ![p] = IF mined THEN "save" ELSE "done"]
         /\ result' = [result EXCEPT ![p] =
                         IF mined THEN @ ELSE Failure("transaction execution reverted", "")]
    /\ UNCHANGED <<now, isInitialized, ruleVars, engineVars, txCount, nonceKey,
                   chainVars, records, req, startTime, policyResult, simulated, cachedNonce,
                   onChainNonce, txNonce, txHash, probeVars, feeVars, sigVars, auxVars>>

\* an INSERT that replaces the row of a tx_hash that is already there
\* (ON CONFLICT (tx_hash) DO UPDATE)
saveTransactionUpsert(table, record) ==
    [table |-> MapSet(table, record.tx_hash, record), threw |-> FALSE]

\* DatabaseService.saveTransaction: INSERT INTO transactions; tx_hash is
\* UNIQUE, the INSERT of a tx_hash that is already there throws and changes
\* nothing
saveTransaction(table, record) ==
    IF record.tx_hash \in DOMAIN table
    THEN [table |-> table, threw |-> TRUE]
    ELSE [table |-> MapSet(table, record.tx_hash, record), threw |-> FALSE]

\* databaseService.saveTransaction, trackPendingTransaction, metrics and the
\* return of the RelayResult
SaveStep(p) ==
    /\ pc[p] = "save"
    /\ pc' = [pc EXCEPT ![p] = "done"]
    /\ LET saved == saveTransaction(records, TransactionRecord(txHash[p], req[p]))
       IN  /\ records' = saved.table
           /\ result' = [result EXCEPT ![p] =
                           IF saved.threw THEN Failure("duplicate key value", "")
                           ELSE Success(txHash[p])]
    /\ UNCHANGED <<now, isInitialized, ruleVars, engineVars, txCount, nonceKey,
                   chainVars, req, startTime, policyResult, simulated, cachedNonce,
                   onChainNonce, txNonce, txHash, probeVars, feeVars, sigVars, auxVars>>

\* RelayerService.initialize: policyEngine.initialize loads the rules
Initialize ==
    /\ ~isInitialized
    /\ loadPolicyRules(policyRows)
    /\ isInitialized' = AllParse(getPolicyRules(policyRows))
    /\ polReq' = NoRequest
    /\ polOut' = Allowed
    /\ UNCHANGED <<now, ruleVars, txCount, nonceKey, chainVars, records, runVars,
                   feeVars, sigVars, auxVars>>

\* half an hour passes
Tick ==
    /\ now < MaxTime
    /\ now' = now + 1
    /\ UNCHANGED <<isInitialized, ruleVars, engineVars, txCount, nonceKey,
                   chainVars, records, runVars, probeVars, feeVars, sigVars, auxVars>>

\* the rows scripts/init-db.sql inserts, with the quota of one transaction
\* per hour
SeedRules ==
    << PolicyRule(1, "allowlist", "*", AllowlistValue({"0xAA", "0xbb"}), TRUE),
       PolicyRule(2, "quota", "*", QuotaValue(1, 10, 10, 100, 1000), TRUE),
       PolicyRule(3, "gas_limit", "*", GasLimitValue(MaxGasLimit, MaxGasPrice), TRUE) >>

CountKeys == Networks \X {ToLowerCase(a) : a \in AddrStrings}

Init ==
    /\ now = 0
    /\ isInitialized = FALSE
    /\ policyRows = SeedRules
    /\ nextRuleId = Len(SeedRules) + 1
    /\ allowlistRules = EmptyMap
    /\ quotaRules = EmptyMap
    /\ gasLimitRules = EmptyMap
    /\ tokenLimitRules = EmptyMap
    /\ txCount = [k \in CountKeys |-> <<>>]
    /\ nonceKey = [n \in Networks |-> NoKey]
    /\ chainTxs = [n \in Networks |-> {}]
    /\ handoffs = <<>>
    /\ records = EmptyMap
    /\ pc = [p \in Procs |-> "idle"]
    /\ req = [p \in Procs |-> NoRequest]
    /\ startTime = [p \in Procs |-> 0]
    /\ policyResult = [p \in Procs |-> Allowed]
    /\ simulated = [p \in Procs |-> ""]
    /\ cachedNonce = [p \in Procs |-> NoNonce]
    /\ onChainNonce = [p \in Procs |-> NoNonce]
    /\ txNonce = [p \in Procs |-> NoNonce]
    /\ txHash = [p \in Procs |-> NoHash]
    /\ result = [p \in Procs |-> NoResult]
    /\ polReq = NoRequest
    /\ polOut = Allowed
    /\ feeReq = NoRequest
    /\ txGasPrice = 0
    /\ txGasLimit = 0
    /\ sigOrig = NoSigned
    /\ sigReq = NoSigned
    /\ sigOk = FALSE
    /\ sigEdits = 0
    /\ listReq = NoListRequest
    /\ listOut = NoListResponse
    /\ boot = "database"
    /\ up = Services
    /\ healthy = {}
    /\ readyOut = "none"
    /\ wmOwner = Deployer
    /\ wmPaused = FALSE
    /\ wmForwarder = ForwarderAddress("localhost")
    /\ allowance = [a \in Accounts |-> 0]
    /\ nftApprovals = {}
    /\ lastCall = NoCall
    /\ callOut = "ok"
    /\ gOwner = ""
    /\ gPaused = FALSE
    /\ gRoles = {}
    /\ operations = [id \in OpIds |-> NotScheduled]
    /\ blockTime = 0
    /\ countOut = NoCount
    /\ rateSet = <<>>
    /\ rateCall = [c \in RateCalls |-> NoRateCall]

Next ==
    \/ Initialize
    \/ Tick
    \/ \E p \in Procs, request \in RelayRequests : RelayTransaction(p, request)
    \/ \E p \in Procs : CheckPoliciesStep(p)
    \/ \E p \in Procs : VerifyStep(p)
    \/ \E p \in Procs : NonceGet(p)
    \/ \E p \in Procs : NonceIncr(p)
    \/ \E p \in Procs : NonceChain(p)
    \/ \E p \in Procs : NonceSet(p)
    \/ \E p \in Procs : BroadcastStep(p)
    \/ \E p \in Procs : WaitStep(p)
    \/ \E p \in Procs : SaveStep(p)

Spec == Init /\ [][Next]_vars

\* relayTransaction runs entered one at a time
NextSeq ==
    \/ Initialize
    \/ Tick
    \/ \E p \in Procs, request \in RelayRequests :
         InFlight = {} /\ RelayTransaction(p, request)
    \/ \E p \in Procs : CheckPoliciesStep(p)
    \/ \E p \in Procs : VerifyStep(p)
    \/ \E p \in Procs : NonceGet(p)
    \/ \E p \in Procs : NonceIncr(p)
    \/ \E p \in Procs : NonceChain(p)
    \/ \E p \in Procs : NonceSet(p)
    \/ \E p \in Procs : BroadcastStep(p)
    \/ \E p \in Procs : WaitStep(p)
    \/ \E p \in Procs : SaveStep(p)

SpecSeq == Init /\ [][NextSeq]_vars

\* the requests of the runs in SpecFlashbots: one for the public path, one
\* for the Flashbots path
FlashbotsRequests ==
    { Request("0xaa", "0xaa", "localhost", 1, 1),
      Request("0xaa", "0xaa", "ethereum", 1, 1) }

\* relayTransaction runs entered one at a time, with Flashbots enabled
NextFlashbots ==
    \/ Initialize
    \/ Tick
    \/ \E p \in Procs, request \in FlashbotsRequests :
         InFlight = {} /\ RelayTransaction(p, request)
    \/ \E p \in Procs : CheckPoliciesStep(p)
    \/ \E p \in Procs : VerifyStep(p)
    \/ \E p \in Procs : NonceGet(p)
    \/ \E p \in Procs : NonceIncr(p)
    \/ \E p \in Procs : NonceChain(p)
    \/ \E p \in Procs : NonceSet(p)
    \/ \E p \in Procs : BroadcastStep(p)
    \/ \E p \in Procs : SendBundleStep(p)
    \/ \E p \in Procs : WaitStep(p)
    \/ \E p \in Procs : SaveStep(p)

SpecFlashbots == Init /\ [][NextFlashbots]_vars

\* the service keeps running: a step of relayTransaction that can be taken
\* (an awaited call that returns) is eventually taken
SpecLive == Init /\ [][NextSeq]_vars /\ WF_vars(NextSeq)

\* requests are signed, changed on their way and verified
NextVerify ==
    \/ \E request \in SignedRequests : VerifySigned(request)
    \/ \E field \in SignedFields :
         \E v \in FieldValues(sigReq, field) : VerifyChanged(field, v)

SpecVerify == Init /\ [][NextVerify]_vars

(* --------------------------- policy rule CRUD -------------------------- *)

\* UPDATE ... SET <updates> WHERE <key>: the row with the fields of updates
\* replaced
ApplyUpdates(row, updates) ==
    [f \in DOMAIN row |-> IF f \in DOMAIN updates THEN updates[f] ELSE row[f]]

\* DatabaseService.savePolicyRule: INSERT, id from the SERIAL
savePolicyRule(rows, id, rule) ==
    Append(rows, PolicyRule(id, rule.rule_type, rule.target, rule.value, rule.enabled))

\* DatabaseService.updatePolicyRule: UPDATE policy_rules SET ... WHERE id = $1
updatePolicyRule(rows, id, updates) ==
    [i \in 1..Len(rows) |->
        IF rows[i].id = id THEN ApplyUpdates(rows[i], updates) ELSE rows[i]]

\* DatabaseService.deletePolicyRule: DELETE FROM policy_rules WHERE id = $1
deletePolicyRule(rows, id) == SelectSeq(rows, LAMBDA r : r.id # id)

\* a request as the policy engine sees it
PolicyRequest(from, network, value, gas, tokenAddress, amount) ==
    [from |-> from, to |-> "0xdd", value |-> value, gas |-> gas,
     signedBy |-> from, network |-> network,
     tokenAddress |-> tokenAddress, amount |-> amount]

\* the requests checkPolicies is called with in SpecPolicy
PolicyRequests ==
    {PolicyRequest(from, "localhost", value, gas, tk[1], tk[2]) :
        from \in {"0xaa", "0xbb", "0xcc"}, value \in {1, MaxValuePerTransaction + 1},
        gas \in {4, MaxGasLimit + 1}, tk \in {<<NoToken, NoAmount>>, <<"0xdd", 5>>}}

\* the rules addPolicyRule is called with in SpecPolicy
NewRules ==
    { [rule_type |-> "allowlist", target |-> "*",
       value |-> AllowlistValue({"0xaa"}), enabled |-> TRUE],
      [rule_type |-> "quota", target |-> "*",
       value |-> QuotaValue(1, 10, 5, 100, 1000), enabled |-> TRUE],
      [rule_type |-> "gas_limit", target |-> "*",
       value |-> GasLimitValue(3, MaxGasPrice), enabled |-> TRUE],
      [rule_type |-> "token_limit", target |-> "*",
       value |-> TokenLimitValue({}, [t \in {"0xdd"} |-> 3], EmptyMap, EmptyMap),
       enabled |-> TRUE] }

\* PolicyEngine.addPolicyRule: savePolicyRule, then loadPolicyRules; what an
\* earlier checkPolicies returned is no longer held
AddPolicyRule(rule) ==
    /\ nextRuleId <= Len(SeedRules) + MaxRules
    /\ policyRows' = savePolicyRule(policyRows, nextRuleId, rule)
    /\ nextRuleId' = nextRuleId + 1
    /\ loadPolicyRules(policyRows')
    /\ polReq' = NoRequest
    /\ polOut' = Allowed
    /\ UNCHANGED <<now, isInitialized, txCount, nonceKey, chainVars, records,
                   runVars, feeVars, sigVars, auxVars>>

\* PolicyEngine.updatePolicyRule: updatePolicyRule of the store, then
\* loadPolicyRules
UpdatePolicyRule(id, updates) ==
    /\ \E i \in 1..Len(policyRows) :
          policyRows[i].id = id /\ policyRows[i].enabled # updates.enabled
    /\ policyRows' = updatePolicyRule(policyRows, id, updates)
    /\ loadPolicyRules(policyRows')
    /\ polReq' = NoRequest
    /\ polOut' = Allowed
    /\ UNCHANGED <<now, isInitialized, nextRuleId, txCount, nonceKey, chainVars,
                   records, runVars, feeVars, sigVars, auxVars>>

\* PolicyEngine.deletePolicyRule: deletePolicyRule of the store, then
\* loadPolicyRules
DeletePolicyRule(id) ==
    /\ \E i \in 1..Len(policyRows) : policyRows[i].id = id
    /\ policyRows' = deletePolicyRule(policyRows, id)
    /\ loadPolicyRules(policyRows')
    /\ polReq' = NoRequest
    /\ polOut' = Allowed
    /\ UNCHANGED <<now, isInitialized, nextRuleId, txCount, nonceKey, chainVars,
                   records, runVars, feeVars, sigVars, auxVars>>

\* what a call of checkPolicies that throws leaves with its caller
Thrown(message) == [allowed |-> FALSE, reason |-> message, thrown |-> TRUE]

\* PolicyEngine.checkPolicies(request), called on its own
CheckPolicies(request) ==
    /\ polReq' = request
    /\ IF ~isInitialized
       THEN /\ polOut' = Thrown("PolicyEngine not initialized")
            /\ UNCHANGED txCount
       ELSE LET out == checkPolicies(request, txCount[CountKey(request)])
            IN  /\ polOut' = out.res
                /\ txCount' = [txCount EXCEPT ![CountKey(request)] = out.scores]
    /\ UNCHANGED <<now, isInitialized, ruleVars, engineVars, nonceKey, chainVars,
                   records, runVars, feeVars, sigVars, auxVars>>

NextPolicy ==
    \/ Initialize
    \/ \E rule \in NewRules : AddPolicyRule(rule)
    \/ \E id \in 1..(Len(SeedRules) + MaxRules), enabled \in BOOLEAN :
         UpdatePolicyRule(id, [enabled |-> enabled])
    \/ \E id \in 1..(Len(SeedRules) + MaxRules) : DeletePolicyRule(id)
    \/ \E request \in PolicyRequests : CheckPolicies(request)

SpecPolicy == Init /\ [][NextPolicy]_vars

(* ------------------- allowlist rules and checkPolicies ------------------ *)

\* the allowlist rules addPolicyRule is called with in SpecAllowlist
NewAllowlistRules ==
    { [rule_type |-> "allowlist", target |-> "*",
       value |-> AllowlistValue({}), enabled |-> TRUE],
      [rule_type |-> "allowlist", target |-> "localhost",
       value |-> AllowlistValue({"0xaa"}), enabled |-> TRUE],
      [rule_type |-> "allowlist", target |-> "polygon",
       value |-> AllowlistValue({"0xcc"}), enabled |-> TRUE] }

\* the requests checkPolicies is called with in SpecAllowlist
AllowlistRequests ==
    {PolicyRequest(from, network, 1, 1, NoToken, NoAmount) :
        from \in {"0xaa", "0xbb", "0xcc"}, network \in {"localhost", "polygon"}}

NextAllowlist ==
    \/ Initialize
    \/ \E rule \in NewAllowlistRules : AddPolicyRule(rule)
    \/ \E id \in 1..(Len(SeedRules) + MaxRules), enabled \in BOOLEAN :
         UpdatePolicyRule(id, [enabled |-> enabled])
    \/ \E id \in 1..(Len(SeedRules) + MaxRules) : DeletePolicyRule(id)
    \/ \E request \in AllowlistRequests : CheckPolicies(request)

SpecAllowlist == Init /\ [][NextAllowlist]_vars

(* --------------------------- fee computation --------------------------- *)

\* getOptimalGasPrice: feeData is the gasPrice of provider.getFeeData()
\* (0 when it is null) or CallError when the call throws
getOptimalGasPrice(feeData) ==
    IF feeData = CallError THEN FallbackGasPrice
    ELSE LET gasPrice == (feeData * GasMultiplierPercent) \div 100
         IN  IF gasPrice > MaxGasPrice THEN MaxGasPrice ELSE gasPrice

\* estimateGas: gasEstimate is what provider.estimateGas returns, or
\* CallError when the call throws
estimateGas(request, gasEstimate) ==
    IF gasEstimate = CallError THEN request.gas
    ELSE (gasEstimate * GasBufferPercent) \div 100

\* the gasPrice values provider.getFeeData answers with in SpecFee
FeeDatas == {CallError, 0, 50, 90}

\* the values provider.estimateGas answers with in SpecFee
GasEstimates == {CallError, 5, 10, 50}

\* the requests a transaction is built for in SpecFee
FeeRequests ==
    {PolicyRequest("0xaa", network, 1, gas, NoToken, NoAmount) :
        network \in {"localhost", "polygon"}, gas \in {10, MaxGasLimit}}

\* the gas rules addPolicyRule is called with in SpecFee
NewGasRules ==
    { [rule_type |-> "gas_limit", target |-> "*",
       value |-> GasLimitValue(MaxGasLimit, 50), enabled |-> TRUE],
      [rule_type |-> "gas_limit", target |-> "localhost",
       value |-> GasLimitValue(MaxGasLimit, 10), enabled |-> TRUE] }

\* relayTransaction from validateRequest to the transaction object, for a
\* request that passes the checks: gasPrice and gasLimit of the transaction
\* that is signed next
BuildTransaction(request, feeData, gasEstimate) ==
    /\ isInitialized
    /\ validateRequest(request) = ""
    /\ checkPolicies(request, txCount[CountKey(request)]).res.allowed
    /\ SignatureValid(request)
    /\ feeReq' = request
    /\ txGasPrice' = getOptimalGasPrice(feeData)
    /\ txGasLimit' = estimateGas(request, gasEstimate)
    /\ UNCHANGED <<now, isInitialized, ruleVars, engineVars, txCount, nonceKey,
                   chainVars, records, runVars, probeVars, sigVars, auxVars>>

\* the rules are set up before transactions are built
NextFee ==
    \/ Initialize
    \/ \E rule \in NewGasRules : feeReq = NoRequest /\ AddPolicyRule(rule)
    \/ \E id \in 1..(Len(SeedRules) + MaxRules), enabled \in BOOLEAN :
         feeReq = NoRequest /\ UpdatePolicyRule(id, [enabled |-> enabled])
    \/ \E id \in 1..(Len(SeedRules) + MaxRules) :
         feeReq = NoRequest /\ DeletePolicyRule(id)
    \/ \E request \in FeeRequests, feeData \in FeeDatas, gasEstimate \in GasEstimates :
         BuildTransaction(request, feeData, gasEstimate)

SpecFee == Init /\ [][NextFee]_vars

(* ----------------------- value quotas and relaying ---------------------- *)

\* the quota rules addPolicyRule is called with in SpecQuota: for the account
\* 0xaa, at most 10^17 wei per hour
NewQuotaRules ==
    { [rule_type |-> "quota", target |-> "0xaa",
       value |-> QuotaValue(100, 1000, MaxValuePerTransaction, 1, 1000),
       enabled |-> TRUE],
      [rule_type |-> "quota", target |-> "0xbb",
       value |-> QuotaValue(100, 1000, MaxValuePerTransaction, 1, 1000),
       enabled |-> TRUE] }

\* relayTransaction runs entered one at a time, after the rules are set up
NextQuota ==
    \/ Initialize
    \/ \E rule \in NewQuotaRules :
         (\A p \in Procs : pc[p] = "idle") /\ AddPolicyRule(rule)
    \/ Tick
    \/ \E p \in Procs, request \in RelayRequests :
         InFlight = {} /\ RelayTransaction(p, request)
    \/ \E p \in Procs : CheckPoliciesStep(p)
    \/ \E p \in Procs : VerifyStep(p)
    \/ \E p \in Procs : NonceGet(p)
    \/ \E p \in Procs : NonceIncr(p)
    \/ \E p \in Procs : NonceChain(p)
    \/ \E p \in Procs : NonceSet(p)
    \/ \E p \in Procs : BroadcastStep(p)
    \/ \E p \in Procs : WaitStep(p)
    \/ \E p \in Procs : SaveStep(p)

SpecQuota == Init /\ [][NextQuota]_vars

(* --------------------- hard ceilings and the rules ---------------------- *)

\* the rules addPolicyRule is called with in SpecCeiling: a gas rule and a
\* quota rule that allow more than the configured ceilings
NewCeilingRules ==
    { [rule_type |-> "gas_limit", target |-> "*",
       value |-> GasLimitValue(MaxGasLimit + 10, MaxGasPrice), enabled |-> TRUE],
      [rule_type |-> "quota", target |-> "*",
       value |-> QuotaValue(100, 1000, MaxValuePerTransaction + 10, 1000, 10000),
       enabled |-> TRUE] }

\* the requests of the runs in SpecCeiling: within the ceilings, gas above
\* the gas ceiling, value above the value ceiling
CeilingRequests ==
    { Request("0xaa", "0xaa", "localhost", 1, 1),
      Request("0xaa", "0xaa", "localhost", 1, MaxGasLimit + 1),
      Request("0xaa", "0xaa", "localhost", MaxValuePerTransaction + 1, 1) }

\* the rules are changed, then relayTransaction runs are entered one at a
\* time
NextCeiling ==
    \/ Initialize
    \/ \E rule \in NewCeilingRules :
         (\A p \in Procs : pc[p] = "idle") /\ AddPolicyRule(rule)
    \/ \E id \in 1..(Len(SeedRules) + MaxRules), enabled \in BOOLEAN :
         (\A p \in Procs : pc[p] = "idle")
            /\ UpdatePolicyRule(id, [enabled |-> enabled])
    \/ \E id \in 1..(Len(SeedRules) + MaxRules) :
         (\A p \in Procs : pc[p] = "idle") /\ DeletePolicyRule(id)
    \/ \E p \in Procs, request \in CeilingRequests :
         InFlight = {} /\ RelayTransaction(p, request)
    \/ \E p \in Procs : CheckPoliciesStep(p)
    \/ \E p \in Procs : VerifyStep(p)
    \/ \E p \in Procs : NonceGet(p)
    \/ \E p \in Procs : NonceIncr(p)
    \/ \E p \in Procs : NonceChain(p)
    \/ \E p \in Procs : NonceSet(p)
    \/ \E p \in Procs : BroadcastStep(p)
    \/ \E p \in Procs : WaitStep(p)
    \/ \E p \in Procs : SaveStep(p)

SpecCeiling == Init /\ [][NextCeiling]_vars

(* ------------------- token rules and checkPolicies ---------------------- *)

\* the token rules addPolicyRule is called with in SpecToken: a cap of 3 per
\* transaction on the token 0xdd, its address written in lower case or in
\* checksum case
NewTokenRules ==
    { [rule_type |-> "token_limit", target |-> "*",
       value |-> TokenLimitValue({}, [t \in {"0xdd"} |-> 3], EmptyMap, EmptyMap),
       enabled |-> TRUE],
      [rule_type |-> "token_limit", target |-> "*",
       value |-> TokenLimitValue({}, [t \in {"0xDD"} |-> 3], EmptyMap, EmptyMap),
       enabled |-> TRUE],
      [rule_type |-> "token_limit", target |-> "*",
       value |-> TokenLimitValue({"0xDD"}, [t \in {"0xdd"} |-> 3], EmptyMap, EmptyMap),
       enabled |-> TRUE] }

\* the requests checkPolicies is called with in SpecToken
TokenRequests ==
    {PolicyRequest(from, "localhost", 1, 1, token, amount) :
        from \in {"0xaa", "0xcc"}, token \in {"0xdd", "0xDD", "0xbb"},
        amount \in {3, 5}}

NextToken ==
    \/ Initialize
    \/ \E rule \in NewTokenRules : AddPolicyRule(rule)
    \/ \E id \in 1..(Len(SeedRules) + MaxRules), enabled \in BOOLEAN :
         UpdatePolicyRule(id, [enabled |-> enabled])
    \/ \E id \in 1..(Len(SeedRules) + MaxRules) : DeletePolicyRule(id)
    \/ \E request \in TokenRequests : CheckPolicies(request)

SpecToken == Init /\ [][NextToken]_vars

(* ------------------------- transaction store --------------------------- *)

Statuses == {"pending", "confirmed", "failed"}

\* DatabaseService.updateTransaction: UPDATE transactions SET ... WHERE
\* tx_hash = $1; no row matches an unknown hash
updateTransaction(table, hash, updates) ==
    IF hash \in DOMAIN table
    THEN [table EXCEPT ![hash] = ApplyUpdates(@, updates)]
    ELSE table

\* the transactions the store is given in SpecStore
StoreHashes ==
    {TxHashOf(Request("0xaa", "0xaa", "localhost", 1, 1), n) :
        n \in ChainNonce0..(ChainNonce0 + MaxStoreTxs - 1)}

\* DatabaseService.saveTransaction of a pending record, as relayTransaction
\* calls it; the INSERT fails on a tx_hash that is already there
SaveTransaction(hash) ==
    /\ records' = saveTransaction(records,
                     TransactionRecord(hash, Request("0xaa", "0xaa", "localhost", 1, 1))).table
    /\ UNCHANGED <<now, isInitialized, ruleVars, engineVars, txCount, nonceKey,
                   chainVars, runVars, probeVars, feeVars, sigVars, auxVars>>

\* DatabaseService.updateTransaction(txHash, {status})
UpdateTransaction(hash, updates) ==
    /\ records' = updateTransaction(records, hash, updates)
    /\ UNCHANGED <<now, isInitialized, ruleVars, engineVars, txCount, nonceKey,
                   chainVars, runVars, probeVars, feeVars, sigVars, auxVars>>

NextStore ==
    \/ \E hash \in StoreHashes : SaveTransaction(hash)
    \/ \E hash \in StoreHashes, status \in Statuses :
         UpdateTransaction(hash, [status |-> status])

SpecStore == Init /\ [][NextStore]_vars

(* -------------------- listing endpoint: the route ---------------------- *)

\* the records the store is given in SpecList
ListedRecord(hash, from, to) ==
    TransactionRecord(hash, [Request(from, from, "localhost", 1, 1) EXCEPT !.to = to])

\* DatabaseService.saveTransaction of a record between two accounts, the
\* transactions saved in the order of their numbers; the response of an
\* earlier listing is forgotten
SaveListed(hash, from, to) ==
    /\ hash \notin DOMAIN records
    /\ \A h \in StoreHashes : h.nonce < hash.nonce => h \in DOMAIN records
    /\ records' = saveTransaction(records, ListedRecord(hash, from, to)).table
    /\ listReq' = NoListRequest
    /\ listOut' = NoListResponse
    /\ UNCHANGED <<now, isInitialized, ruleVars, engineVars, txCount, nonceKey,
                   chainVars, runVars, probeVars, feeVars, sigVars, healthVars,
                   contractVars, lateVars>>

\* GET /transactions/:address?limit=: the route handler, which calls
\* relayerService.getTransactionsByAddress(address) without a limit
GetTransactions(address, limit) ==
    /\ listReq' = ListRequest(address, ParseLimit(limit))
    /\ IF ParseLimit(limit) > MaxListLimit
       THEN listOut' = ListError
       ELSE \E transactions \in
                 getTransactionsByAddress(records, address, DefaultListLimit) :
              listOut' = ListResponse(Take(transactions, ParseLimit(limit)),
                                      Len(transactions))
    /\ UNCHANGED <<now, isInitialized, ruleVars, engineVars, txCount, nonceKey,
                   chainVars, records, runVars, probeVars, feeVars, sigVars,
                   healthVars,
                   contractVars, lateVars>>

NextList ==
    \/ Tick
    \/ \E hash \in StoreHashes :
         \E ft \in {<<"0xaa", "0xdd">>, <<"0xbb", "0xaa">>, <<"0xbb", "0xdd">>} :
            SaveListed(hash, ft[1], ft[2])
    \/ \E address \in {"0xaa", "0xdd"}, limit \in 0..(MaxListLimit + 1) :
         GetTransactions(address, limit)

SpecList == Init /\ [][NextList]_vars

(* -------------------- start of the backend and /ready ------------------ *)

relayVars == <<now, isInitialized, ruleVars, engineVars, txCount, nonceKey,
               chainVars, records, runVars, probeVars, feeVars, sigVars>>

\* a service goes down or comes back
Toggle(service) ==
    /\ up' = IF service \in up THEN up \ {service} ELSE up \cup {service}
    /\ UNCHANGED <<relayVars, listVars, boot, healthy, readyOut,
                   contractVars, lateVars>>

\* RelayerBackend.start: databaseService.connect() returns or throws, and
\* start exits the process when it throws
ConnectDatabase ==
    /\ boot = "database"
    /\ IF "database" \in up
       THEN boot' = "redis" /\ healthy' = healthy \cup {"database"}
       ELSE boot' = "exited" /\ UNCHANGED healthy
    /\ UNCHANGED <<relayVars, listVars, up, readyOut,
                   contractVars, lateVars>>

\* RelayerBackend.start: redisService.connect()
ConnectRedis ==
    /\ boot = "redis"
    /\ IF "redis" \in up
       THEN boot' = "relayer" /\ healthy' = healthy \cup {"redis"}
       ELSE boot' = "exited" /\ UNCHANGED healthy
    /\ UNCHANGED <<relayVars, listVars, up, readyOut,
                   contractVars, lateVars>>

\* RelayerBackend.start: relayerService.initialize(), which constructs a
\* JsonRpcProvider per network without calling it and loads the policy
\* rules from the database; then server.listen
StartRelayer ==
    /\ boot = "relayer"
    /\ IF "database" \in up
       THEN /\ boot' = "listening"
            /\ isInitialized' = TRUE
            /\ loadPolicyRules(policyRows)
       ELSE /\ boot' = "exited"
            /\ UNCHANGED <<isInitialized, engineVars>>
    /\ UNCHANGED <<now, ruleVars, txCount, nonceKey, chainVars, records, runVars,
                   probeVars, feeVars, sigVars, listVars, up, healthy, readyOut,
                   contractVars, lateVars>>

\* a call of the provider of a network (getFeeData, call, estimateGas,
\* getTransactionCount) returns
ChainAnswers(network) ==
    /\ boot = "listening"
    /\ network \in up
    /\ healthy' = healthy \cup {network}
    /\ UNCHANGED <<relayVars, listVars, boot, up, readyOut,
                   contractVars, lateVars>>

\* GET /health/ready
GetReady ==
    /\ boot = "listening"
    /\ readyOut' = "ready"
    /\ UNCHANGED <<relayVars, listVars, boot, up, healthy,
                   contractVars, lateVars>>

NextReady ==
    \/ \E service \in Services : Toggle(service)
    \/ ConnectDatabase
    \/ ConnectRedis
    \/ StartRelayer
    \/ \E network \in Networks : ChainAnswers(network)
    \/ GetReady

SpecReady == Init /\ [][NextReady]_vars

(* --------------------------- WithdrawManager --------------------------- *)

\* onlyOwner of WithdrawManager: "ok", or the error it reverts with
wmOnlyOwner(caller) ==
    IF msgSender(caller, wmForwarder) = wmOwner THEN "ok"
    ELSE "OwnableUnauthorizedAccount"

\* withdrawERC20 without the whenNotPaused modifier
withdrawERC20NotGuarded(caller, token, amount) ==
    IF token = ZeroAddress THEN "InvalidTokenAddress"
    ELSE IF amount = 0 THEN "InvalidAmount"
    ELSE LET user == msgSender(caller, wmForwarder)
         IN  IF Erc20Balance(user) < amount THEN "InsufficientBalance"
             ELSE IF allowance[user] < amount THEN "ERC20InsufficientAllowance"
             ELSE "ok"

\* withdrawERC20(token, amount): "ok", or the error it reverts with
withdrawERC20(caller, token, amount) ==
    IF wmPaused THEN "EnforcedPause"
    ELSE IF token = ZeroAddress THEN "InvalidTokenAddress"
    ELSE IF amount = 0 THEN "InvalidAmount"
    ELSE LET user == msgSender(caller, wmForwarder)
         IN  IF Erc20Balance(user) < amount THEN "InsufficientBalance"
             ELSE IF allowance[user] < amount THEN "ERC20InsufficientAllowance"
             ELSE "ok"

\* withdrawERC721(token, tokenId): the error it reverts with; the
\* safeTransferFrom to WithdrawManager, which has no onERC721Received,
\* reverts
withdrawERC721(caller, token, tokenId) ==
    IF wmPaused THEN "EnforcedPause"
    ELSE IF token = ZeroAddress THEN "InvalidTokenAddress"
    ELSE IF tokenId # 1 THEN "ERC721NonexistentToken"
    ELSE IF NftOwner # msgSender(caller, wmForwarder) THEN "NotTokenOwner"
    ELSE IF "erc721" \notin nftApprovals THEN "ERC721InsufficientApproval"
    ELSE "ERC721InvalidReceiver"

\* withdrawERC1155(token, tokenId, amount): the error it reverts with; the
\* safeTransferFrom to WithdrawManager, which has no onERC1155Received,
\* reverts
withdrawERC1155(caller, token, tokenId, amount) ==
    IF wmPaused THEN "EnforcedPause"
    ELSE IF token = ZeroAddress THEN "InvalidTokenAddress"
    ELSE IF amount = 0 THEN "InvalidAmount"
    ELSE IF tokenId # 1 \/ Erc1155Balance(msgSender(caller, wmForwarder)) < amount
         THEN "InsufficientBalance"
    ELSE IF "erc1155" \notin nftApprovals THEN "ERC1155MissingApprovalForAll"
    ELSE "ERC1155InvalidReceiver"

\* the other state of the model
notContracts == <<relayVars, listVars, healthVars, lateVars>>

\* TestERC20.approve(withdrawManager, amount) by the holder of the tokens
Approve(amount) ==
    /\ allowance' = [allowance EXCEPT !["0xbb"] = amount]
    /\ lastCall' = Call([sender |-> "0xbb", appended |-> ""], "approve", <<amount>>)
    /\ callOut' = "ok"
    /\ UNCHANGED <<notContracts, wmOwner, wmPaused, wmForwarder, nftApprovals,
                   guardianVars>>

\* TestERC721.approve / TestERC1155.setApprovalForAll by the holder
ApproveNft(kind) ==
    /\ kind \notin nftApprovals
    /\ nftApprovals' = nftApprovals \cup {kind}
    /\ lastCall' = Call([sender |-> "0xbb", appended |-> ""], "approveNft", <<kind>>)
    /\ callOut' = "ok"
    /\ UNCHANGED <<notContracts, wmOwner, wmPaused, wmForwarder, allowance,
                   guardianVars>>

WithdrawERC20(caller, token, amount) ==
    /\ lastCall' = Call(caller, "withdrawERC20", <<token, amount>>)
    /\ callOut' = withdrawERC20(caller, token, amount)
    /\ allowance' = IF callOut' = "ok"
                    THEN [allowance EXCEPT ![msgSender(caller, wmForwarder)] = @ - amount]
                    ELSE allowance
    /\ UNCHANGED <<notContracts, wmOwner, wmPaused, wmForwarder, nftApprovals,
                   guardianVars>>

WithdrawERC721(caller, token, tokenId) ==
    /\ lastCall' = Call(caller, "withdrawERC721", <<token, tokenId>>)
    /\ callOut' = withdrawERC721(caller, token, tokenId)
    /\ UNCHANGED <<notContracts, wmVars, guardianVars>>

WithdrawERC1155(caller, token, tokenId, amount) ==
    /\ lastCall' = Call(caller, "withdrawERC1155", <<token, tokenId, amount>>)
    /\ callOut' = withdrawERC1155(caller, token, tokenId, amount)
    /\ UNCHANGED <<notContracts, wmVars, guardianVars>>

\* WithdrawManager.pause: onlyOwner, then Pausable._pause (whenNotPaused)
WmPause(caller) ==
    /\ lastCall' = Call(caller, "wm.pause", <<>>)
    /\ callOut' = IF wmOnlyOwner(caller) # "ok" THEN wmOnlyOwner(caller)
                  ELSE IF wmPaused THEN "EnforcedPause" ELSE "ok"
    /\ wmPaused' = IF callOut' = "ok" THEN TRUE ELSE wmPaused
    /\ UNCHANGED <<notContracts, wmOwner, wmForwarder, allowance, nftApprovals,
                   guardianVars>>

\* WithdrawManager.unpause: onlyOwner, then Pausable._unpause (whenPaused)
WmUnpause(caller) ==
    /\ lastCall' = Call(caller, "wm.unpause", <<>>)
    /\ callOut' = IF wmOnlyOwner(caller) # "ok" THEN wmOnlyOwner(caller)
                  ELSE IF ~wmPaused THEN "ExpectedPause" ELSE "ok"
    /\ wmPaused' = IF callOut' = "ok" THEN FALSE ELSE wmPaused
    /\ UNCHANGED <<notContracts, wmOwner, wmForwarder, allowance, nftApprovals,
                   guardianVars>>

\* WithdrawManager.updateTrustedForwarder(newForwarder): onlyOwner
UpdateTrustedForwarder(caller, newForwarder) ==
    /\ lastCall' = Call(caller, "wm.updateTrustedForwarder", <<newForwarder>>)
    /\ callOut' = wmOnlyOwner(caller)
    /\ wmForwarder' = IF callOut' = "ok" THEN newForwarder ELSE wmForwarder
    /\ UNCHANGED <<notContracts, wmOwner, wmPaused, allowance, nftApprovals,
                   guardianVars>>

\* Ownable.transferOwnership(newOwner) of WithdrawManager: onlyOwner
WmTransferOwnership(caller, newOwner) ==
    /\ lastCall' = Call(caller, "wm.transferOwnership", <<newOwner>>)
    /\ callOut' = wmOnlyOwner(caller)
    /\ wmOwner' = IF callOut' = "ok" THEN newOwner ELSE wmOwner
    /\ UNCHANGED <<notContracts, wmPaused, wmForwarder, allowance, nftApprovals,
                   guardianVars>>

\* the owner pauses and unpauses, the holder approves, everybody withdraws
NextWithdraw ==
    \/ \E amount \in 0..2 : Approve(amount)
    \/ \E kind \in {"erc721", "erc1155"} : ApproveNft(kind)
    \/ \E caller \in Callers : WmPause(caller)
    \/ \E caller \in Callers : WmUnpause(caller)
    \/ \E caller \in Callers, token \in {ZeroAddress, "0xdd"}, amount \in {0, 1, 3} :
         WithdrawERC20(caller, token, amount)
    \/ \E caller \in Callers, token \in {ZeroAddress, "0xdd"}, tokenId \in {1, 2} :
         WithdrawERC721(caller, token, tokenId)
    \/ \E caller \in Callers, token \in {ZeroAddress, "0xdd"}, amount \in {0, 1, 3} :
         WithdrawERC1155(caller, token, 1, amount)

SpecWithdraw == Init /\ [][NextWithdraw]_vars

(* ------------------------------ Guardian ------------------------------- *)

\* onlyOwner of Guardian: "ok", or the error it reverts with
gOnlyOwner(caller) ==
    IF contextMsgSender(caller) = gOwner THEN "ok"
    ELSE "OwnableUnauthorizedAccount"

\* scheduleOperation without the check of the delay in Guardian
scheduleOperationUnchecked(caller, id, delay) ==
    IF gOnlyOwner(caller) # "ok" THEN gOnlyOwner(caller)
    ELSE IF "proposer" \notin gRoles THEN "AccessControlUnauthorizedAccount"
    ELSE IF operations[id] # NotScheduled THEN "TimelockUnexpectedOperationState"
    ELSE "ok"

\* scheduleOperation(.., delay): "ok", or the error it reverts with, of
\* Guardian or of timelock.schedule
scheduleOperation(caller, id, delay) ==
    IF gOnlyOwner(caller) # "ok" THEN gOnlyOwner(caller)
    ELSE IF delay < MIN_DELAY THEN "InvalidDelay"
    ELSE IF "proposer" \notin gRoles THEN "AccessControlUnauthorizedAccount"
    ELSE IF operations[id] # NotScheduled THEN "TimelockUnexpectedOperationState"
    ELSE "ok"

\* new Guardian(proposers, executors): the deployer owns it; roles are the
\* timelock roles the two lists give to Guardian itself
GuardianDeploy(deployer, roles) ==
    /\ gOwner = ""
    /\ gOwner' = deployer
    /\ gRoles' = roles
    /\ lastCall' = Call([sender |-> deployer, appended |-> ""], "g.constructor", <<roles>>)
    /\ callOut' = "ok"
    /\ UNCHANGED <<notContracts, wmVars, gPaused, operations, blockTime>>

\* Guardian.emergencyPause: onlyOwner, then Pausable._pause
EmergencyPause(caller) ==
    /\ gOwner # ""
    /\ lastCall' = Call(caller, "g.emergencyPause", <<>>)
    /\ callOut' = IF gOnlyOwner(caller) # "ok" THEN gOnlyOwner(caller)
                  ELSE IF gPaused THEN "EnforcedPause" ELSE "ok"
    /\ gPaused' = IF callOut' = "ok" THEN TRUE ELSE gPaused
    /\ UNCHANGED <<notContracts, wmVars, gOwner, gRoles, operations, blockTime>>

\* Guardian.emergencyUnpause: onlyOwner, then Pausable._unpause
EmergencyUnpause(caller) ==
    /\ gOwner # ""
    /\ lastCall' = Call(caller, "g.emergencyUnpause", <<>>)
    /\ callOut' = IF gOnlyOwner(caller) # "ok" THEN gOnlyOwner(caller)
                  ELSE IF ~gPaused THEN "ExpectedPause" ELSE "ok"
    /\ gPaused' = IF callOut' = "ok" THEN FALSE ELSE gPaused
    /\ UNCHANGED <<notContracts, wmVars, gOwner, gRoles, operations, blockTime>>

\* Guardian.scheduleOperation: the timelock records block.timestamp + delay
ScheduleOperation(caller, id, delay) ==
    /\ gOwner # ""
    /\ lastCall' = Call(caller, "g.scheduleOperation", <<id, delay>>)
    /\ callOut' = scheduleOperation(caller, id, delay)
    /\ operations' = IF callOut' = "ok"
                     THEN [operations EXCEPT ![id] = blockTime + delay]
                     ELSE operations
    /\ UNCHANGED <<notContracts, wmVars, gOwner, gPaused, gRoles, blockTime>>

\* Guardian.executeOperation: timelock.execute of an operation that is ready
ExecuteOperation(caller, id) ==
    /\ gOwner # ""
    /\ lastCall' = Call(caller, "g.executeOperation", <<id>>)
    /\ callOut' = IF gOnlyOwner(caller) # "ok" THEN gOnlyOwner(caller)
                  ELSE IF "executor" \notin gRoles THEN "AccessControlUnauthorizedAccount"
                  ELSE IF ~(operations[id] > DoneTimestamp /\ operations[id] <= blockTime)
                       THEN "TimelockUnexpectedOperationState"
                  ELSE "ok"
    /\ operations' = IF callOut' = "ok"
                     THEN [operations EXCEPT ![id] = DoneTimestamp]
                     ELSE operations
    /\ UNCHANGED <<notContracts, wmVars, gOwner, gPaused, gRoles, blockTime>>

\* Guardian.cancelOperation: timelock.cancel of a pending operation
CancelOperation(caller, id) ==
    /\ gOwner # ""
    /\ lastCall' = Call(caller, "g.cancelOperation", <<id>>)
    /\ callOut' = IF gOnlyOwner(caller) # "ok" THEN gOnlyOwner(caller)
                  ELSE IF "proposer" \notin gRoles THEN "AccessControlUnauthorizedAccount"
                  ELSE IF operations[id] <= DoneTimestamp
                       THEN "TimelockUnexpectedOperationState"
                  ELSE "ok"
    /\ operations' = IF callOut' = "ok"
                     THEN [operations EXCEPT ![id] = NotScheduled]
                     ELSE operations
    /\ UNCHANGED <<notContracts, wmVars, gOwner, gPaused, gRoles, blockTime>>

\* Ownable.transferOwnership(newOwner) of Guardian: onlyOwner
GuardianTransferOwnership(caller, newOwner) ==
    /\ gOwner # ""
    /\ lastCall' = Call(caller, "g.transferOwnership", <<newOwner>>)
    /\ callOut' = gOnlyOwner(caller)
    /\ gOwner' = IF callOut' = "ok" THEN newOwner ELSE gOwner
    /\ UNCHANGED <<notContracts, wmVars, gPaused, gRoles, operations, blockTime>>

\* a block is mined 12 hours later
Mine ==
    /\ blockTime < MaxBlockTime
    /\ blockTime' = blockTime + 1
    /\ lastCall' = NoCall
    /\ callOut' = "ok"
    /\ UNCHANGED <<notContracts, wmVars, gOwner, gPaused, gRoles, operations>>

TimelockRoles == {{}, {"proposer", "executor"}}

\* Guardian with its timelock, while blocks are mined
NextGuardian ==
    \/ \E deployer \in {"0xaa", "0xbb"}, roles \in TimelockRoles :
         GuardianDeploy(deployer, roles)
    \/ \E caller \in Callers : EmergencyPause(caller)
    \/ \E caller \in Callers : EmergencyUnpause(caller)
    \/ \E caller \in Callers, id \in OpIds, delay \in 1..(MIN_DELAY + 1) :
         ScheduleOperation(caller, id, delay)
    \/ \E caller \in Callers, id \in OpIds : ExecuteOperation(caller, id)
    \/ \E caller \in Callers, id \in OpIds : CancelOperation(caller, id)
    \/ Mine

SpecGuardian == Init /\ [][NextGuardian]_vars

\* the owner-only functions of both contracts, called by everybody
NextAccess ==
    \/ \E caller \in Callers : WmPause(caller)
    \/ \E caller \in Callers : WmUnpause(caller)
    \/ \E caller \in Callers, newForwarder \in Forwarders :
         UpdateTrustedForwarder(caller, newForwarder)
    \/ \E caller \in Callers, newOwner \in {"0xaa", "0xbb"} :
         WmTransferOwnership(caller, newOwner)
    \/ \E deployer \in {"0xaa", "0xbb"}, roles \in TimelockRoles :
         GuardianDeploy(deployer, roles)
    \/ \E caller \in Callers : EmergencyPause(caller)
    \/ \E caller \in Callers : EmergencyUnpause(caller)
    \/ \E caller \in Callers, id \in OpIds, delay \in 1..(MIN_DELAY + 1) :
         ScheduleOperation(caller, id, delay)
    \/ \E caller \in Callers, newOwner \in {"0xaa", "0xbb"} :
         GuardianTransferOwnership(caller, newOwner)

SpecAccess == Init /\ [][NextAccess]_vars

(* ----------------------- reads of a tx_count window -------------------- *)

\* ZADD tx_count:<network>:<address> with the present time as score, by a
\* client of the cache
RecordEntry ==
    /\ Len(txCount[WindowKey]) < MaxEntries
    /\ txCount' = [txCount EXCEPT ![WindowKey] = Append(@, now)]
    /\ countOut' = NoCount
    /\ UNCHANGED <<now, isInitialized, ruleVars, engineVars, nonceKey, chainVars,
                   records, runVars, probeVars, feeVars, sigVars, listVars,
                   healthVars, contractVars, rateVars>>

\* PolicyEngine.getTransactionCount(address, network, timeWindow)
GetTransactionCount(timeWindow) ==
    /\ LET out == getTransactionCount(txCount[WindowKey], timeWindow)
       IN  /\ txCount' = [txCount EXCEPT ![WindowKey] = out.scores]
           /\ countOut' = CountRead(timeWindow, now, txCount[WindowKey],
                                    out.count, out.scores)
    /\ UNCHANGED <<now, isInitialized, ruleVars, engineVars, nonceKey, chainVars,
                   records, runVars, probeVars, feeVars, sigVars, listVars,
                   healthVars, contractVars, rateVars>>

\* entries are recorded and the hourly and daily windows are read as time
\* passes
NextWindow ==
    \/ Tick
    \/ RecordEntry
    \/ \E timeWindow \in {OneHour, OneDay} : GetTransactionCount(timeWindow)

SpecWindow == Init /\ [][NextWindow]_vars

(* ------------------ reloads of the rules and evaluation ---------------- *)

\* the rules addPolicyRule is called with in SpecReload: a gas limit for
\* localhost, and an allowlist for polygon whose value is not JSON
ReloadRules ==
    { [rule_type |-> "gas_limit", target |-> "localhost",
       value |-> GasLimitValue(3, MaxGasPrice), enabled |-> TRUE],
      [rule_type |-> "allowlist", target |-> "polygon",
       value |-> MalformedValue, enabled |-> TRUE] }

\* rules are added while requests are evaluated
NextReload ==
    \/ Initialize
    \/ Tick
    \/ \E rule \in ReloadRules : isInitialized /\ AddPolicyRule(rule)
    \/ \E request \in PolicyRequests : CheckPolicies(request)

SpecReload == Init /\ [][NextReload]_vars

\* INSERT INTO policy_rules by another process that shares the store: the
\* engine of this process is not called
ExternalInsert(rule) ==
    /\ nextRuleId <= Len(SeedRules) + MaxRules
    /\ policyRows' = savePolicyRule(policyRows, nextRuleId, rule)
    /\ nextRuleId' = nextRuleId + 1
    /\ UNCHANGED <<now, isInitialized, engineVars, txCount, nonceKey, chainVars,
                   records, runVars, probeVars, feeVars, sigVars, auxVars>>

\* the engine of this process, its callers, and another writer of the store
NextRefresh ==
    \/ Initialize
    \/ Tick
    \/ \E rule \in NewRules : isInitialized /\ AddPolicyRule(rule)
    \/ \E rule \in NewRules : ExternalInsert(rule)
    \/ \E request \in PolicyRequests : CheckPolicies(request)

\* the service is started, time passes, and requests keep being evaluated
SpecRefresh ==
    /\ Init /\ [][NextRefresh]_vars
    /\ WF_vars(Initialize)
    /\ WF_vars(Tick)
    /\ WF_vars(\E request \in PolicyRequests : CheckPolicies(request))

(* ------------------ quota evaluation without the cache ------------------ *)

\* requests are evaluated while the cache goes down and comes back
NextCacheDown ==
    \/ Initialize
    \/ Tick
    \/ Toggle("redis")
    \/ RecordEntry
    \/ \E request \in PolicyRequests : CheckPolicies(request)

SpecCacheDown == Init /\ [][NextCacheDown]_vars

(* ------------------------- RedisService.checkRateLimit ------------------ *)

\* the catch block of checkRateLimit: the call is allowed
RateCaught(c) == [rateCall EXCEPT ![c].pc = "done", ![c].allowed = TRUE]

\* checkRateLimit is entered: const now = Date.now()
RateEnter(c) ==
    /\ rateCall[c].pc = "idle"
    /\ \A d \in RateCalls : d < c => rateCall[d].pc # "idle"
    /\ rateCall' = [rateCall EXCEPT ![c] = RateCall("trim", now, 0, FALSE)]
    /\ UNCHANGED <<relayVars, listVars, healthVars, contractVars, countOut, rateSet>>

\* await this.client.zRemRangeByScore(key, 0, windowStart)
RateTrim(c) ==
    /\ rateCall[c].pc = "trim"
    /\ IF "redis" \notin up
       THEN rateCall' = RateCaught(c) /\ UNCHANGED rateSet
       ELSE /\ rateSet' = ZRemRangeByScore(rateSet, 0, rateCall[c].now - WindowMs)
            /\ rateCall' = [rateCall EXCEPT ![c].pc = "card"]
    /\ UNCHANGED <<relayVars, listVars, healthVars, contractVars, countOut>>

\* const currentCount = await this.client.zCard(key), and the return of
\* allowed: false when it has reached maxRequests (zRange only reads)
RateCard(c) ==
    /\ rateCall[c].pc = "card"
    /\ IF "redis" \notin up
       THEN rateCall' = RateCaught(c)
       ELSE rateCall' = [rateCall EXCEPT
                           ![c].currentCount = Len(rateSet),
                           ![c].pc = IF Len(rateSet) >= MaxRequests
                                     THEN "done" ELSE "add"]
    /\ UNCHANGED <<relayVars, listVars, healthVars, contractVars, countOut, rateSet>>

\* await this.client.zAdd(key, {score: now, ...}), expire, and the return of
\* allowed: true
RateAdd(c) ==
    /\ rateCall[c].pc = "add"
    /\ IF "redis" \notin up
       THEN rateCall' = RateCaught(c) /\ UNCHANGED rateSet
       ELSE /\ rateSet' = Append(rateSet, rateCall[c].now)
            /\ rateCall' = [rateCall EXCEPT ![c].pc = "done", ![c].allowed = TRUE]
    /\ UNCHANGED <<relayVars, listVars, healthVars, contractVars, countOut>>

\* calls of checkRateLimit that overlap as the scheduler lets them
NextRate ==
    \/ Tick
    \/ \E c \in RateCalls : RateEnter(c)
    \/ \E c \in RateCalls : RateTrim(c)
    \/ \E c \in RateCalls : RateCard(c)
    \/ \E c \in RateCalls : RateAdd(c)

SpecRate == Init /\ [][NextRate]_vars

(* ------------------- exceptions during the evaluation ------------------ *)

\* the rule addPolicyRule is called with in SpecFaults: a gas limit for
\* localhost whose maxGasLimit is not a number
FaultyRules ==
    { [rule_type |-> "gas_limit", target |-> "localhost",
       value |-> GasLimitValue(NotNumeric, MaxGasPrice), enabled |-> TRUE] }

\* the requests of SpecFaults: those of SpecPolicy, and some whose gas is
\* not a number
FaultRequests ==
    PolicyRequests
    \cup {PolicyRequest(from, network, 1, NotNumeric, NoToken, NoAmount) :
             from \in {"0xaa", "0xcc"}, network \in {"localhost", "polygon"}}

\* requests are evaluated while a rule with a bad value is added and the
\* cache goes down and comes back
NextFaults ==
    \/ Initialize
    \/ \E rule \in FaultyRules : isInitialized /\ AddPolicyRule(rule)
    \/ Toggle("redis")
    \/ \E request \in FaultRequests : CheckPolicies(request)

SpecFaults == Init /\ [][NextFaults]_vars

(* ------------------------------ shutdown ------------------------------- *)

\* RelayerService.shutdown: isInitialized = false
Shutdown ==
    /\ isInitialized
    /\ isInitialized' = FALSE
    /\ UNCHANGED <<now, ruleVars, engineVars, txCount, nonceKey, chainVars,
                   records, runVars, probeVars, feeVars, sigVars, auxVars>>

\* relayTransaction runs entered one at a time, before initialisation, while
\* the service is up and after it was shut down
NextShutdown ==
    \/ Initialize
    \/ Shutdown
    \/ \E p \in Procs, request \in RelayRequests :
         InFlight = {} /\ RelayTransaction(p, request)
    \/ \E p \in Procs : CheckPoliciesStep(p)
    \/ \E p \in Procs : VerifyStep(p)
    \/ \E p \in Procs : NonceGet(p)
    \/ \E p \in Procs : NonceIncr(p)
    \/ \E p \in Procs : NonceChain(p)
    \/ \E p \in Procs : NonceSet(p)
    \/ \E p \in Procs : BroadcastStep(p)
    \/ \E p \in Procs : WaitStep(p)
    \/ \E p \in Procs : SaveStep(p)

SpecShutdown == Init /\ [][NextShutdown]_vars

(* ------------------------------- claims -------------------------------- *)

\* the runs that have been handed a sequence number on a network
Allocated(network) ==
    {p \in Procs : txNonce[p] # NoNonce /\ req[p].network = network}

\* C1: in a sequence of relay runs on one network, the numbers handed out by
\* getNextNonce go up by exactly one from each run to the next run that
\* reaches allocation, the first allocation included: none is reused, none
\* is skipped.  (Under SpecSeq the runs are entered in the order of Procs.
\* Only a number that the chain has taken is required not to come back, so
\* that handing a number out again after a failed signing does not count.)
CE_C1_NoncesStrictlyIncreasingGapFree ==
    \A network \in Networks : \A p, q \in Allocated(network) :
        (/\ p < q
         /\ txHash[p] # NoHash
         /\ ~(\E m \in Allocated(network) : p < m /\ m < q))
            => txNonce[q] = txNonce[p] + 1

\* C2: under every interleaving, the callers that have obtained a sequence
\* number on one network hold pairwise distinct numbers that form a
\* contiguous range [k, k+N-1].
CE_C2_ConcurrentNoncesDistinctContiguous ==
    \A network \in Networks :
        LET nonces == {txNonce[p] : p \in Allocated(network)}
        IN  /\ Cardinality(nonces) = Cardinality(Allocated(network))
            /\ \A a, b \in nonces : b - a < Cardinality(nonces)

\* C3: a pending record keyed by the transaction's hash is in the store
\* before the signed transaction is handed to the chain: at no point is
\* there a transaction handed to broadcast without a stored record.
CE_C3_RecordSavedBeforeBroadcast ==
    \A i \in 1..Len(handoffs) :
        handoffs[i].accepted => handoffs[i].tx \in DOMAIN records

\* the runs of (network, from) entered less than an hour ago whose
\* transaction was broadcast and recorded
RelayedInLastHour(key) ==
    {p \in Procs :
        /\ pc[p] = "done" /\ result[p].success
        /\ CountKey(req[p]) = key
        /\ now - startTime[p] < OneHour}

\* C4: for every (from, network), the number of requests admitted and
\* broadcast within one hour never exceeds the max-tx-per-hour of the "*"
\* quota rule in force.
CE_C4_HourlyQuotaNeverExceeded ==
    \A key \in CountKeys :
        "*" \in DOMAIN quotaRules =>
            Cardinality(RelayedInLastHour(key))
                <= quotaRules["*"].maxTransactionsPerHour

\* the signature of the request does not recover to its from address
BadSignature(request) ==
    /\ request # NoRequest
    /\ ToLowerCase(verifyTypedData(request)) # ToLowerCase(request.from)

\* C5: every step of a run whose request carries a signature that does not
\* recover to `from` (letter case ignored) leaves the nonce cursors, the
\* transaction records and the chain as they were; the run never gets past
\* the signature check and, when it returns, it returns a failure.
Thm_C5_BadSignatureRejectedNoEffect ==
    [][\A p \in Procs :
         (BadSignature(req'[p]) /\ pc'[p] # pc[p]) =>
            /\ nonceKey' = nonceKey
            /\ records' = records
            /\ chainTxs' = chainTxs /\ handoffs' = handoffs
            /\ txNonce'[p] = NoNonce /\ txHash'[p] = NoHash
            /\ pc'[p] \in {"policy", "verify", "done"}
            /\ (pc'[p] = "done" => ~result'[p].success)]_vars

\* C5 witness: a run was rejected for its signature while a cursor exists
\* and a record has been stored
W_C5_BadSignatureRejected ==
    \E p \in Procs :
        /\ pc[p] = "done" /\ BadSignature(req[p])
        /\ result[p].error = "Invalid meta-transaction signature"
        /\ nonceKey["localhost"] # NoKey
        /\ DOMAIN records # {}

\* C6: a run whose request the policy engine rejected, or whose simulation
\* reverted, holds no sequence number, has handed nothing to the chain, has
\* stored no record, and has returned a failure.
Thm_C6_RejectedNeverAllocates ==
    \A p \in Procs :
        (~policyResult[p].allowed \/ simulated[p] = "revert") =>
            /\ txNonce[p] = NoNonce
            /\ txHash[p] = NoHash
            /\ pc[p] = "done"
            /\ ~result[p].success

\* C6 witness: one run rejected by policy and another by simulation
W_C6_PolicyAndSimulationRejections ==
    \E p, q \in Procs :
        /\ pc[p] = "done" /\ ~policyResult[p].allowed
        /\ result[p].error = "Policy violation"
        /\ pc[q] = "done" /\ simulated[q] = "revert"

\* C8: on one network the transactions reach the chain in the order of
\* their sequence numbers: a transaction the node takes later never carries
\* a lower number than one it took before.
CE_C8_BroadcastInNonceOrder ==
    \A i, j \in 1..Len(handoffs) :
        (/\ i < j
         /\ handoffs[i].accepted /\ handoffs[j].accepted
         /\ handoffs[i].tx.network = handoffs[j].tx.network)
            => handoffs[i].tx.nonce <= handoffs[j].tx.nonce

\* C7: once the status of a transaction record is terminal, no store
\* operation changes it: a status update takes effect only on a record that
\* is pending.
CE_C7_TerminalStatusImmutable ==
    [][\A hash \in DOMAIN records :
         records[hash].status \in {"confirmed", "failed", "dropped"} =>
            /\ hash \in DOMAIN records'
            /\ records'[hash].status = records[hash].status]_vars

\* the results of the four stages of checkPolicies, in the order allowlist,
\* quota, gas cap, token cap
StageResults(request) ==
    << checkAllowlist(request),
       checkQuotas(request, txCount[CountKey(request)]).res,
       checkGasLimits(request),
       checkTokenLimits(request) >>

\* the first rejection of a sequence of stage results, Allowed when none
FirstRejection(stages) ==
    IF \E i \in 1..Len(stages) : ~stages[i].allowed
    THEN stages[CHOOSE i \in 1..Len(stages) :
                    /\ ~stages[i].allowed
                    /\ \A j \in 1..(i - 1) : stages[j].allowed]
    ELSE Allowed

\* C9: what checkPolicies returns is the result of the earliest of the stages
\* allowlist, quota, gas cap, token cap that rejects the request, and it
\* admits the request only when no stage rejects.
Thm_C9_FirstRejectionInStageOrder ==
    (polReq # NoRequest /\ isInitialized) =>
        polOut = FirstRejection(StageResults(polReq))

\* C9 witness: a request that the quota, the gas and the token stage all
\* reject, answered with the reason of the quota stage
W_C9_SeveralKindsViolated ==
    /\ polReq # NoRequest /\ isInitialized
    /\ StageResults(polReq)[1].allowed
    /\ ~StageResults(polReq)[2].allowed
    /\ ~StageResults(polReq)[3].allowed
    /\ ~StageResults(polReq)[4].allowed
    /\ polOut = Rejected("Transaction value exceeds limit")

\* a request passes one stored rule, whatever the other rules are
PassesRule(rule, request) ==
    CASE rule.rule_type = "allowlist" ->
           rule.target \in {"*", request.network}
              => InAddressList(rule.value.addresses, request.from)
      [] rule.rule_type = "quota" ->
           rule.target \in {"*", ToLowerCase(request.from)}
              => request.value <= rule.value.maxValuePerTransaction
      [] rule.rule_type = "gas_limit" ->
           rule.target \in {"*", request.network}
              => request.gas <= rule.value.maxGasLimit
      [] rule.rule_type = "token_limit" ->
           (rule.target = "*" /\ request.tokenAddress # NoToken
              /\ ToLowerCase(request.tokenAddress)
                    \in DOMAIN rule.value.maxAmountPerTransaction)
              => request.amount
                    <= rule.value.maxAmountPerTransaction[ToLowerCase(request.tokenAddress)]

\* C10: a request that checkPolicies admits passes every enabled rule of the
\* store that applies to it, also when two enabled rules have the same kind
\* and target.
CE_C10_EveryEnabledRuleEnforced ==
    (polReq # NoRequest /\ isInitialized /\ polOut.allowed) =>
        \A i \in 1..Len(policyRows) :
            policyRows[i].enabled => PassesRule(policyRows[i], polReq)

\* the enabled allowlist rows of the store for one target
AllowlistRows(target) ==
    {i \in 1..Len(policyRows) :
        /\ policyRows[i].enabled
        /\ policyRows[i].rule_type = "allowlist"
        /\ policyRows[i].target = target}

\* checkPolicies answered with a rejection of the allowlist stage
AllowlistRejected(out) ==
    /\ ~out.allowed
    /\ out.reason \in {"Address not in global allowlist"}
                        \cup {NetworkAllowlistReason(n) : n \in Networks}

CE_C12_GasPriceWithinRuleMaximum ==
    feeReq # NoRequest =>
        \A target \in {"*", feeReq.network} \cap DOMAIN gasLimitRules :
            txGasPrice <= gasLimitRules[target].maxGasPrice

\* C13: the gas limit of a transaction the pipeline builds for signing is at
\* most the gas the request declares.
CE_C13_GasLimitWithinDeclaredGas ==
    feeReq # NoRequest => txGasLimit <= feeReq.gas

\* the sum of the values of the requests of a set of runs
RECURSIVE ValueSum(_)
ValueSum(runs) ==
    IF runs = {} THEN 0
    ELSE LET p == CHOOSE q \in runs : TRUE
         IN  req[p].value + ValueSum(runs \ {p})

\* C14: for every (from, network), the total value of the requests relayed
\* within one hour is at most the maxValuePerHour of every quota rule in
\* force for the address (the rule for "*" and the rule for the address).
CE_C14_HourlyValueNeverExceeded ==
    \A key \in CountKeys :
        \A target \in {"*", key[2]} \cap DOMAIN quotaRules :
            ValueSum(RelayedInLastHour(key)) <= quotaRules[target].maxValuePerHour

\* C15: a request with token fields that checkPolicies admits stays within
\* every per-transaction cap the token rule in force holds for its token
\* address, in whatever letter case the address is written in the rule or in
\* the request.
CE_C15_TokenCapAnyLetterCase ==
    (/\ polReq # NoRequest /\ isInitialized /\ polOut.allowed
     /\ polReq.tokenAddress # NoToken
     /\ "*" \in DOMAIN tokenLimitRules) =>
        \A token \in DOMAIN tokenLimitRules["*"].maxAmountPerTransaction :
            ToLowerCase(token) = ToLowerCase(polReq.tokenAddress) =>
                polReq.amount <= tokenLimitRules["*"].maxAmountPerTransaction[token]

\* C16: the record of a relayed transaction, saved as pending after tx.wait()
\* returned the success receipt, is eventually marked confirmed or failed: it
\* does not stay pending forever.
CE_C16_PendingEventuallySettled ==
    \A p \in Procs :
        (pc[p] = "done" /\ result[p].success)
            ~> (/\ txHash[p] \in DOMAIN records
                /\ records[txHash[p]].status \in {"confirmed", "failed"})

\* C17: a run of relayTransaction that reports success returns a hash that
\* is not empty and is the hash of a transaction that was taken for
\* broadcast, on the public path and on the Flashbots path.
CE_C17_SuccessHashOfAcceptedTransaction ==
    \A p \in Procs :
        (pc[p] = "done" /\ result[p].success) =>
            /\ result[p].txHash # NoHash
            /\ \E i \in 1..Len(handoffs) :
                 /\ handoffs[i].tx = result[p].txHash
                 /\ handoffs[i].accepted

AboveCeiling(request) ==
    request.gas > MaxGasLimit \/ request.value > MaxValuePerTransaction

\* C19: a run whose request declares more gas than the configured gas
\* ceiling, or more value than the configured value ceiling, ends in the
\* failure validateRequest throws, whatever rules are loaded: it never gets
\* to the policy check, is handed no sequence number and broadcasts nothing.
Thm_C19_HardCeilingsBeforePolicy ==
    \A p \in Procs :
        (req[p] # NoRequest /\ AboveCeiling(req[p])) =>
            /\ pc[p] = "done"
            /\ ~result[p].success
            /\ result[p].error = validateRequest(req[p])
            /\ result[p].error # ""
            /\ txNonce[p] = NoNonce
            /\ txHash[p] = NoHash
            /\ simulated[p] = ""

\* requests above each ceiling have been rejected while no gas rule and no
\* quota rule was loaded
W_C19_RejectedWithNoRuleLoaded ==
    /\ isInitialized
    /\ DOMAIN gasLimitRules = {} /\ DOMAIN quotaRules = {}
    /\ DOMAIN allowlistRules = {}
    /\ \E p, q \in Procs :
         /\ pc[p] = "done" /\ req[p].gas > MaxGasLimit
         /\ pc[q] = "done" /\ req[q].value > MaxValuePerTransaction

\* the fields whose value in the request received is not the value the
\* sender signed; the spelling of an address in another letter case is the
\* same value
ChangedFields ==
    {field \in SignedFields :
        IF field \in {"from", "to"}
        THEN ToLowerCase(sigReq[field]) # ToLowerCase(sigOrig[field])
        ELSE sigReq[field] # sigOrig[field]}

\* C20: a request signed by its from account over {from, to, value, gas,
\* nonce, data} under the MinimalForwarder 0.0.1 domain of its network
\* passes verifyMetaTransactionSignature, and with any one of those fields,
\* the signature or the network changed it does not.
Thm_C20_SignatureRoundTrip ==
    sigOrig # NoSigned =>
        /\ ChangedFields = {} => sigOk
        /\ Cardinality(ChangedFields) = 1 => ~sigOk

\* a request verified after its network alone was changed to one with
\* another chain id
W_C20_OtherNetworkRejected ==
    /\ sigOrig # NoSigned
    /\ ChangedFields = {"network"}
    /\ ~sigOk

\* C21: the listing for an address, asked with a limit L from 1 to the
\* maximum, answers with min(L, number of records the address is a party
\* of) records, each of them a record of the address, newest first; a limit
\* above the maximum is rejected.
CE_C21_ListingHonoursLimit ==
    listReq # NoListRequest =>
        IF listReq.limit > MaxListLimit
        THEN ~listOut.success
        ELSE LET matching == Matching(records, listReq.address)
                 rows == listOut.transactions
             IN  /\ listOut.success
                 /\ Len(rows) = IF listReq.limit < Cardinality(matching)
                                THEN listReq.limit ELSE Cardinality(matching)
                 /\ \A i \in DOMAIN rows : rows[i] \in matching
                 /\ \A i, j \in DOMAIN rows : i < j =>
                       records[rows[i]].created_at >= records[rows[j]].created_at

\* C22: GET /health/ready has answered with success only if the database,
\* Redis and the chain client of every configured network have each answered
\* the backend at least once.
CE_C22_ReadyOnlyAfterAllHealthy ==
    readyOut = "ready" => Services \subseteq healthy

WithdrawCalls == {"withdrawERC20", "withdrawERC721", "withdrawERC1155"}

\* C23: a call of withdrawERC20, withdrawERC721 or withdrawERC1155 made
\* while WithdrawManager is paused reverts with EnforcedPause and moves no
\* token: allowances and approvals stay as they were, and so does the pause
\* state, which only a call of unpause by the owner ends.
Thm_C23_PausedWithdrawalsRevert ==
    [][/\ (wmPaused /\ lastCall'.fn \in WithdrawCalls) =>
            /\ callOut' = "EnforcedPause"
            /\ allowance' = allowance /\ nftApprovals' = nftApprovals
            /\ wmPaused'
       /\ (wmPaused /\ ~wmPaused') =>
            /\ lastCall'.fn = "wm.unpause"
            /\ msgSender(lastCall', wmForwarder) = wmOwner]_vars

\* a withdrawal that would have gone through was refused because the
\* contract was paused
W_C23_PausedWithdrawalRefused ==
    /\ wmPaused
    /\ lastCall.fn = "withdrawERC20"
    /\ callOut = "EnforcedPause"
    /\ withdrawERC20NotGuarded(lastCall, lastCall.args[1], lastCall.args[2]) = "ok"

WmOwnerCalls == {"wm.pause", "wm.unpause", "wm.updateTrustedForwarder"}
GuardianOwnerCalls == {"g.emergencyPause", "g.emergencyUnpause", "g.scheduleOperation"}

Thm_C25_NoScheduleBelowMinDelay ==
    [][/\ (/\ lastCall'.fn = "g.scheduleOperation"
           /\ lastCall'.args[2] < MIN_DELAY) =>
            /\ callOut' = IF contextMsgSender(lastCall') = gOwner
                          THEN "InvalidDelay" ELSE "OwnableUnauthorizedAccount"
            /\ operations' = operations
       /\ \A id \in OpIds :
            (operations'[id] # operations[id] /\ operations'[id] > DoneTimestamp) =>
                operations'[id] >= blockTime + MIN_DELAY]_vars

\* the owner of a Guardian that may propose asked for a delay of 12 hours
\* for an id that was free, and was refused
W_C25_ShortDelayRefused ==
    /\ lastCall.fn = "g.scheduleOperation"
    /\ lastCall.args[2] < MIN_DELAY
    /\ callOut = "InvalidDelay"
    /\ scheduleOperationUnchecked(lastCall, lastCall.args[1], lastCall.args[2]) = "ok"

\* C26: Guardian leaves the paused state only through the timelock: in the
\* step that unpauses it, an operation scheduled MIN_DELAY or more earlier
\* is ready or has just been executed.
CE_C26_UnpauseAfterTimelockDelay ==
    [][(gPaused /\ ~gPaused') =>
          \E id \in OpIds :
              \/ operations'[id] = DoneTimestamp
              \/ (operations[id] > DoneTimestamp /\ operations[id] <= blockTime)]_vars

\* what the next call of RelayerService.getNextNonce would return
NextAcquisition(network) ==
    IF getCurrentNonce(network) # NoNonce THEN getNextNonce(network).ret
    ELSE PendingCount(network)

\* the runs that held a sequence number when signing or saving failed
FailedAfterAllocation ==
    {p \in Procs : /\ pc[p] = "done"
                   /\ txNonce[p] # NoNonce
                   /\ result[p].success = FALSE
                   /\ result[p].error \in {"signTransaction failed", "duplicate key value"}}

\* C27: once a run whose signing or saving failed has returned, the number
\* it held is back with the allocator: as long as no later run has asked
\* for a number on that network, the next acquisition yields that number.
CE_C27_FailedRunReturnsItsNumber ==
    \A p \in FailedAfterAllocation :
        (/\ InFlight = {}
         /\ \A q \in Allocated(req[p].network) : q <= p)
            => NextAcquisition(req[p].network) = txNonce[p]

\* C28: whenever the cursor of a network exists (the key is set and has not
\* expired), its value is at least the pending transaction count of the
\* relayer on that network.
CE_C28_CursorAtLeastPendingCount ==
    \A network \in Networks :
        Live(nonceKey[network]) => nonceKey[network].val >= PendingCount(network)

\* C29: every write of the cursor of a network leaves it no lower than it
\* was, and above every number already handed out on that network, also
\* when the write is the one that sets it from the chain again after the key
\* has expired.
CE_C29_CursorNeverFallsBehind ==
    [][\A network \in Networks :
          nonceKey'[network] # nonceKey[network] =>
              /\ nonceKey[network].val # NoNonce =>
                    nonceKey'[network].val >= nonceKey[network].val
              /\ \A p \in Allocated(network) :
                    nonceKey'[network].val >= txNonce[p] + 1]_vars

\* C30: every run that has returned success within the last hour has an
\* entry in the tx-count window of its (network, from).
CE_C30_BroadcastCounted ==
    \A network \in Networks, from \in {ToLowerCase(a) : a \in AddrStrings} :
        Len(txCount[<<network, from>>]) >= Cardinality(RelayedInLastHour(<<network, from>>))

\* the entries of a sorted set with a score of at least `from`
EntriesSince(scores, from) == SelectSeq(scores, LAMBDA t : t >= from)

\* C31: a read of a window returns the number of entries recorded with a
\* score of at least (time of the read - window), the entry exactly at that
\* score included, and leaves in the set every entry of the last 24 hours.
CE_C31_WindowCountExactNoEarlyEviction ==
    countOut # NoCount =>
        /\ countOut.count =
              Len(EntriesSince(countOut.before, countOut.at - countOut.window))
        /\ EntriesSince(countOut.after, countOut.at - OneDay) =
              EntriesSince(countOut.before, countOut.at - OneDay)

\* the four maps after a reload that got through every enabled row
CompleteRuleSet(rows) ==
    LET rules == getPolicyRules(rows)
    IN  << LoadRulesOfType(rules, "allowlist", 1, EmptyMap),
           LoadRulesOfType(rules, "quota", 1, EmptyMap),
           LoadRulesOfType(rules, "gas_limit", 1, EmptyMap),
           LoadRulesOfType(rules, "token_limit", 1, EmptyMap) >>

\* C32: the rule set a checkPolicies call has evaluated a request against is
\* the complete set of a reload that went through: the rows of the store as
\* they were before or after an addPolicyRule, all of them loaded.  (Rows
\* are only added in SpecReload, so the store has gone through the prefixes
\* of policyRows.)
CE_C32_EvaluationSeesCompleteRuleSet ==
    (isInitialized /\ polReq # NoRequest) =>
        \E k \in Len(SeedRules)..Len(policyRows) :
            /\ AllParse(getPolicyRules(SubSeq(policyRows, 1, k)))
            /\ engineVars = CompleteRuleSet(SubSeq(policyRows, 1, k))

\* C33: whenever the rule set in the engine is not the one of the enabled
\* rows in the store, it becomes so later on, without a restart.
CE_C33_StoreChangesEventuallyLoaded ==
    (engineVars # CompleteRuleSet(policyRows))
        ~> (engineVars = CompleteRuleSet(policyRows))

\* C34: a checkPolicies call made while the counter cache cannot be read
\* does not admit the request: the quota it has to evaluate leads to an
\* error or to a rejection.
CE_C34_UnreadableCountNotAdmitted ==
    [][(/\ isInitialized
        /\ "redis" \notin up
        /\ "*" \in DOMAIN quotaRules
        /\ polReq' # NoRequest
        /\ <<polReq', polOut'>> # <<polReq, polOut>>)
          => ~polOut'.allowed]_vars

\* the calls that have returned allowed: true
AllowedCalls == {c \in RateCalls : rateCall[c].pc = "done" /\ rateCall[c].allowed}

\* C35: of the calls of checkRateLimit with one identifier, at most
\* maxRequests are allowed within a span of windowMs, however the calls
\* overlap; and the sorted set holds no entry of a call that was denied.
CE_C35_RateLimitHoldsUnderInterleaving ==
    /\ \A c \in AllowedCalls :
          Cardinality({d \in AllowedCalls :
                          /\ rateCall[c].now - WindowMs < rateCall[d].now
                          /\ rateCall[d].now <= rateCall[c].now}) <= MaxRequests
    /\ Len(rateSet) <= Cardinality(AllowedCalls)

\* an exception is raised in the evaluation of the request in the present
\* state: by a cache read of the quota stage, or by BigInt in the gas stage
ExceptionRaised(request) ==
    /\ isInitialized
    /\ checkAllowlist(request).allowed
    /\ \/ /\ "redis" \notin up
          /\ {"*", ToLowerCase(request.from)} \cap DOMAIN quotaRules # {}
       \/ /\ checkQuotas(request, txCount[CountKey(request)]).res.allowed
          /\ checkGasLimitsThrows(request)

\* C36: a checkPolicies call in whose evaluation an exception is raised
\* returns allowed = false with the reason 'Policy check failed'.
CE_C36_ExceptionGivesPolicyCheckFailed ==
    [][(/\ polReq' # NoRequest
        /\ <<polReq', polOut'>> # <<polReq, polOut>>
        /\ ExceptionRaised(polReq'))
          => polOut' = Rejected("Policy check failed")]_vars

AddedRows ==
    {i \in 1..Len(policyRows) :
        policyRows[i].id > Len(SeedRules) /\ policyRows[i].enabled}

\* C38: once rules have been added, disabled or deleted through the policy
\* engine, checkPolicies decides with the rule set of a store from which the
\* disabled rows are absent, and a request it admits passes every enabled
\* rule that was added through addPolicyRule.
CE_C38_DisabledIgnoredAddedEnforced ==
    (polReq # NoRequest /\ isInitialized) =>
        /\ engineVars =
              CompleteRuleSet(SelectSeq(policyRows, LAMBDA r : r.enabled))
        /\ polOut.allowed =>
              \A i \in AddedRows : PassesRule(policyRows[i], polReq)

====
